---- MODULE Spec2Model ----
(***************************************************************************)
(* TrendRadar gold scraper: the FallbackManager health state machine, the  *)
(* DataSourceWrapper fetch coordinator built on it, and the bounded        *)
(* concurrency scraping cycle of WebScrapingManager.                       *)
(***************************************************************************)
EXTENDS Integers, Sequences, FiniteSets, TLC

\* ---------------------------------------------------------------- bounds
\* Cap of the (unbounded) failure counters.
MaxFailures == 6
\* datetime.now() is drawn from 1..MaxTime.
MaxTime == 2

\* ------------------------------------------------ fallback_manager.py
API == "api"
SCRAPER == "scraper"
DataSourceType == {API, SCRAPER}

HEALTHY == "healthy"
DEGRADED == "degraded"
FAILED == "failed"
UNKNOWN == "unknown"
DataSourceStatus == {HEALTHY, DEGRADED, FAILED, UNKNOWN}

api_failure_threshold == 3
scraper_failure_threshold == 5

\* self.config.get(f"{source_type.value}_failure_threshold", 3)
failure_threshold(source_type) ==
    IF source_type = API THEN api_failure_threshold
    ELSE scraper_failure_threshold

None == 0
Times == 1..MaxTime

Tasks == {"t1", "t2"}

VARIABLES
    source_status,      \* FallbackManager.source_status
    failure_counts,     \* FallbackManager.failure_counts
    last_success_time,  \* FallbackManager.last_success_time (None or a time)
    streak,             \* history: record_failure calls on a source since its
                        \* last record_success / reset_source_status
    hist,               \* history: the last three mutator calls per source
    trace,              \* whether hist is recorded in this behaviour
    pc,                 \* per task: where its fetch_data_with_fallback call stands
    api_fetcher,        \* per task: whether api_fetcher was supplied
    scraper_fetcher,    \* per task: whether scraper_fetcher was supplied
    preferred_source,   \* per task: local preferred_source
    used_fallback,      \* per task: local used_fallback
    result,             \* per task: the returned triple
    calls,              \* history, per task and call: fetcher invocations and
                        \* record_success / record_failure calls per source
    apiUp,              \* the API fetcher no longer raises
    scraperDown,        \* the scraper fetcher no longer returns
    cycle,              \* where scrape_all_sources or test_all_parsers stands
    browser,            \* the browser session: "closed" or "open"
    semaphore,          \* value of the asyncio.Semaphore of the cycle
    ppc,                \* per parser: where its _scrape_with_parser task stands
    attempt,            \* per parser: the loop variable attempt
    pages,              \* per parser: pages it opened and has not closed
    outcome,            \* per parser: how its latest attempt ended
    presult,            \* per parser: what its task returned
    parse_calls,        \* history, per parser: parse_data calls of the cycle
    slept,              \* history, per parser: seconds of each kind of sleep
                        \* taken since its latest attempt started
    output,             \* whether the cycle returned, and the parsers whose
                        \* records it returned
    callee,             \* the dedup function under study: a parser's name,
                        \* "manager", or "none"
    data_list,          \* its argument data_list
    returned,           \* what it returned
    called,             \* whether it was called
    page,               \* the rows and widget items of the page given to
                        \* parse_data
    text,               \* the text given to clean_price_text
    payload,            \* the payloads given to the DataValidator
    monitor,            \* the GoldScraperPerformanceMonitor: _lock, timers,
                        \* current_metrics, stats
    threads,            \* per thread: its stack of calls into the monitor and
                        \* what its latest call returned
    web                 \* the fetch_gold_price_web call: max_retries, retries,
                        \* where it stands, the cycles it ran, what it returned

mgrVars == <<source_status, failure_counts, last_success_time>>
histVars == <<streak, hist, trace>>
wrapVars == <<pc, api_fetcher, scraper_fetcher, preferred_source, used_fallback,
              result, calls>>
envVars == <<apiUp, scraperDown>>
scrapeVars == <<cycle, browser, semaphore, ppc, attempt, pages, outcome, presult,
                parse_calls, slept, output>>
inputVars == <<page, text, payload>>
pureVars == <<callee, data_list, returned, called, page, text, payload>>
serviceVars == <<monitor, threads, web>>
fetchVars == <<source_status, failure_counts, last_success_time, streak, hist,
               trace, pc, api_fetcher, scraper_fetcher, preferred_source,
               used_fallback, result, calls, apiUp, scraperDown>>
vars == <<source_status, failure_counts, last_success_time, streak, hist, trace,
          pc, api_fetcher, scraper_fetcher, preferred_source, used_fallback,
          result, calls, apiUp, scraperDown,
          cycle, browser, semaphore, ppc, attempt, pages, outcome, presult,
          parse_calls, slept, output, callee, data_list, returned, called,
          page, text, payload, monitor, threads, web>>

\* FallbackManager.__init__
ManagerInit ==
    /\ source_status = [s \in DataSourceType |-> UNKNOWN]
    /\ failure_counts = [s \in DataSourceType |-> 0]
    /\ last_success_time = [s \in DataSourceType |-> None]

HistInit(t) ==
    /\ streak = [s \in DataSourceType |-> 0]
    /\ hist = [s \in DataSourceType |-> <<>>]
    /\ trace = t

is_source_healthy(source_type) ==
    source_status[source_type] \in {HEALTHY, UNKNOWN}

\* A policy that never goes back to API while API is not healthy.
get_preferred_source_NoOptimisticRetry ==
    IF source_status[API] \in {HEALTHY, UNKNOWN} THEN API ELSE SCRAPER

get_preferred_source ==
    IF source_status[API] \in {HEALTHY, UNKNOWN} THEN API
    ELSE IF source_status[SCRAPER] \in {HEALTHY, UNKNOWN} THEN SCRAPER
    ELSE API

\* A fallback taken after any failure of the API fetcher.
should_fallback_OnAnyFailure(current_source) == current_source = API

should_fallback(current_source) ==
    IF current_source = API THEN source_status[API] = FAILED
    ELSE FALSE

\* A fallback that ignores the scraper's own status.
get_fallback_source_Always(current_source) ==
    IF current_source = API THEN SCRAPER ELSE "none"

\* None is modelled by the string "none".
get_fallback_source(current_source) ==
    IF current_source = API /\ source_status[SCRAPER] # FAILED THEN SCRAPER
    ELSE "none"

\* A second increment overwritten by a stale value.
IncrementedCount_LostUpdate(c) == IF c > 0 THEN c ELSE c + 1

\* self.failure_counts[source_type] += 1
IncrementedCount(c) == c + 1

\* The threshold compared with > instead of >=.
StatusForCount_OffByOne(source_type, c) ==
    IF c > failure_threshold(source_type) THEN FAILED ELSE DEGRADED

\* the status record_failure derives from the new count
StatusForCount(source_type, c) ==
    IF c >= failure_threshold(source_type) THEN FAILED ELSE DEGRADED

\* A success that does not reset the counter.
record_success_KeepCount(source_type, now) ==
    /\ source_status' = [source_status EXCEPT ![source_type] = HEALTHY]
    /\ last_success_time' = [last_success_time EXCEPT ![source_type] = now]
    /\ UNCHANGED failure_counts

record_success(source_type, now) ==
    /\ source_status' = [source_status EXCEPT ![source_type] = HEALTHY]
    /\ failure_counts' = [failure_counts EXCEPT ![source_type] = 0]
    /\ last_success_time' = [last_success_time EXCEPT ![source_type] = now]

record_failure(source_type) ==
    /\ failure_counts' = [failure_counts EXCEPT
                             ![source_type] = IncrementedCount(@)]
    /\ source_status' = [source_status EXCEPT ![source_type] =
                            StatusForCount(source_type, failure_counts'[source_type])]
    /\ UNCHANGED last_success_time

\* A reset that does not clear the counter.
reset_source_status_KeepCount(source_type) ==
    /\ source_status' = [source_status EXCEPT ![source_type] = UNKNOWN]
    /\ UNCHANGED <<failure_counts, last_success_time>>

reset_source_status(source_type) ==
    /\ source_status' = [source_status EXCEPT ![source_type] = UNKNOWN]
    /\ failure_counts' = [failure_counts EXCEPT ![source_type] = 0]
    /\ UNCHANGED last_success_time

\* ------------------------------------------------------------ history
\* The scenarios span three calls: the window keeps the last three.
Window(h) == IF Len(h) > 3 THEN Tail(h) ELSE h

\* Records one mutator call op on source s: the count it found and the
\* status it left.
Observe(s, op) ==
    /\ streak' = [streak EXCEPT ![s] = IF op = "failure" THEN @ + 1 ELSE 0]
    /\ hist' = IF trace
               THEN [hist EXCEPT ![s] = Window(Append(@,
                        [op |-> op, pre |-> failure_counts[s],
                         status |-> source_status'[s]]))]
               ELSE hist
    /\ UNCHANGED trace

\* The counters are capped at MaxFailures.
BelowCap(s) == failure_counts[s] < MaxFailures /\ streak[s] < MaxFailures

\* --------------------------------------- direct calls of the mutators
CallRecordSuccess(s) ==
    /\ \E now \in Times : record_success(s, now)
    /\ Observe(s, "success")

CallRecordFailure(s) ==
    /\ BelowCap(s)
    /\ record_failure(s)
    /\ Observe(s, "failure")

\* A reset that resets every source.
CallReset_EverySource(s) ==
    /\ source_status' = [o \in DataSourceType |-> UNKNOWN]
    /\ failure_counts' = [o \in DataSourceType |-> 0]
    /\ UNCHANGED last_success_time
    /\ Observe(s, "reset")

CallReset(s) ==
    /\ reset_source_status(s)
    /\ Observe(s, "reset")

\* ------------------------- DataSourceWrapper.fetch_data_with_fallback
NoCalls == [inv |-> [s \in DataSourceType |-> 0],
            succ |-> [s \in DataSourceType |-> 0],
            fail |-> [s \in DataSourceType |-> 0],
            conc |-> FALSE]

Awaiting == {"await_api", "await_fallback", "await_scraper"}

\* Another task is suspended inside its own call.
OthersInFlight(t) == \E u \in Tasks \ {t} : pc[u] \in Awaiting

NoResult == <<"-", "-", FALSE>>

WrapperInit ==
    /\ pc = [t \in Tasks |-> "idle"]
    /\ api_fetcher = [t \in Tasks |-> FALSE]
    /\ scraper_fetcher = [t \in Tasks |-> FALSE]
    /\ preferred_source = [t \in Tasks |-> API]
    /\ used_fallback = [t \in Tasks |-> FALSE]
    /\ result = [t \in Tasks |-> NoResult]
    /\ calls = [t \in Tasks |-> NoCalls]

EnvInit == apiUp = FALSE /\ scraperDown = FALSE

NoteSuccess(t, s) ==
    calls' = [calls EXCEPT ![t].succ[s] = @ + 1,
                           ![t].conc = @ \/ OthersInFlight(t)]
NoteFailure(t, s) ==
    calls' = [calls EXCEPT ![t].fail[s] = @ + 1,
                           ![t].conc = @ \/ OthersInFlight(t)]

\* return <triple>
Return(t, triple) ==
    /\ pc' = [pc EXCEPT ![t] = "done"]
    /\ result' = [result EXCEPT ![t] = triple]

\* A call that turns to the other fetcher when the preferred source has none.
CallWith_TriesOtherFetcher(t, a, s) ==
    /\ pc[t] \in {"idle", "done"}
    /\ api_fetcher' = [api_fetcher EXCEPT ![t] = a]
    /\ scraper_fetcher' = [scraper_fetcher EXCEPT ![t] = s]
    /\ preferred_source' = [preferred_source EXCEPT ![t] = get_preferred_source]
    /\ used_fallback' = [used_fallback EXCEPT ![t] = FALSE]
    /\ IF a /\ (get_preferred_source = API \/ ~s)
       THEN /\ pc' = [pc EXCEPT ![t] = "await_api"]
            /\ calls' = [calls EXCEPT ![t] = [NoCalls EXCEPT !.inv[API] = 1]]
            /\ result' = [result EXCEPT ![t] = NoResult]
       ELSE IF s
       THEN /\ pc' = [pc EXCEPT ![t] = "await_scraper"]
            /\ calls' = [calls EXCEPT ![t] = [NoCalls EXCEPT !.inv[SCRAPER] = 1]]
            /\ result' = [result EXCEPT ![t] = NoResult]
       ELSE /\ calls' = [calls EXCEPT ![t] = NoCalls]
            /\ Return(t, <<"null", "none", FALSE>>)
    /\ UNCHANGED <<mgrVars, histVars, envVars, scrapeVars, pureVars, serviceVars>>

\* lines 222-226 and 261: the call up to its first await, or to line 279
\* when the preferred source has no fetcher.
CallWith(t, a, s) ==
    /\ pc[t] \in {"idle", "done"}
    /\ api_fetcher' = [api_fetcher EXCEPT ![t] = a]
    /\ scraper_fetcher' = [scraper_fetcher EXCEPT ![t] = s]
    /\ preferred_source' = [preferred_source EXCEPT ![t] = get_preferred_source]
    /\ used_fallback' = [used_fallback EXCEPT ![t] = FALSE]
    /\ IF get_preferred_source = API /\ a
       THEN /\ pc' = [pc EXCEPT ![t] = "await_api"]
            /\ calls' = [calls EXCEPT ![t] = [NoCalls EXCEPT !.inv[API] = 1]]
            /\ result' = [result EXCEPT ![t] = NoResult]
       ELSE IF get_preferred_source = SCRAPER /\ s
       THEN /\ pc' = [pc EXCEPT ![t] = "await_scraper"]
            /\ calls' = [calls EXCEPT ![t] = [NoCalls EXCEPT !.inv[SCRAPER] = 1]]
            /\ result' = [result EXCEPT ![t] = NoResult]
       ELSE /\ calls' = [calls EXCEPT ![t] = NoCalls]
            /\ Return(t, <<"null", "none", FALSE>>)
    /\ UNCHANGED <<mgrVars, histVars, envVars, scrapeVars, pureVars, serviceVars>>

Call(t) == \E a, s \in BOOLEAN : CallWith(t, a, s)

\* lines 231-236: api_fetcher() returned
ApiReturns(t) ==
    /\ pc[t] = "await_api"
    /\ \E now \in Times : record_success(API, now)
    /\ Observe(API, "success")
    /\ NoteSuccess(t, API)
    /\ Return(t, <<"data", "api", FALSE>>)
    /\ UNCHANGED <<api_fetcher, scraper_fetcher, preferred_source, used_fallback,
                   envVars, scrapeVars, pureVars, serviceVars>>

\* lines 238-259 up to the await of scraper_fetcher(), or to line 279
ApiRaises(t) ==
    /\ pc[t] = "await_api"
    /\ ~apiUp
    /\ BelowCap(API)
    /\ record_failure(API)
    /\ Observe(API, "failure")
    /\ IF should_fallback(API)'
          /\ get_fallback_source(API)' = SCRAPER /\ scraper_fetcher[t]
       THEN /\ used_fallback' = [used_fallback EXCEPT ![t] = TRUE]
            /\ pc' = [pc EXCEPT ![t] = "await_fallback"]
            /\ calls' = [calls EXCEPT ![t].fail[API] = @ + 1,
                                      ![t].inv[SCRAPER] = @ + 1,
                                      ![t].conc = @ \/ OthersInFlight(t)]
            /\ UNCHANGED result
       ELSE /\ NoteFailure(t, API)
            /\ Return(t, <<"null", "none", used_fallback[t]>>)
            /\ UNCHANGED used_fallback
    /\ UNCHANGED <<api_fetcher, scraper_fetcher, preferred_source, envVars,
                   scrapeVars, pureVars, serviceVars>>

\* lines 251-255: the fallback scraper_fetcher() returned
FallbackReturns(t) ==
    /\ pc[t] = "await_fallback"
    /\ ~scraperDown
    /\ \E now \in Times : record_success(SCRAPER, now)
    /\ Observe(SCRAPER, "success")
    /\ NoteSuccess(t, SCRAPER)
    /\ Return(t, <<"data", "scraper", TRUE>>)
    /\ UNCHANGED <<api_fetcher, scraper_fetcher, preferred_source, used_fallback,
                   envVars, scrapeVars, pureVars, serviceVars>>

\* A fallback fetcher whose exception leaves the call unhandled.
FallbackRaises_Propagates(t) ==
    /\ pc[t] = "await_fallback"
    /\ pc' = [pc EXCEPT ![t] = "raised"]
    /\ UNCHANGED <<mgrVars, histVars, api_fetcher, scraper_fetcher,
                   preferred_source, used_fallback, result, calls, envVars,
                   scrapeVars, pureVars, serviceVars>>

\* lines 257-259 and 279: the fallback scraper_fetcher() raised
FallbackRaises(t) ==
    /\ pc[t] = "await_fallback"
    /\ BelowCap(SCRAPER)
    /\ record_failure(SCRAPER)
    /\ Observe(SCRAPER, "failure")
    /\ NoteFailure(t, SCRAPER)
    /\ Return(t, <<"null", "none", used_fallback[t]>>)
    /\ UNCHANGED <<api_fetcher, scraper_fetcher, preferred_source, used_fallback,
                   envVars, scrapeVars, pureVars, serviceVars>>

\* lines 266-271: the preferred scraper_fetcher() returned
ScraperReturns(t) ==
    /\ pc[t] = "await_scraper"
    /\ ~scraperDown
    /\ \E now \in Times : record_success(SCRAPER, now)
    /\ Observe(SCRAPER, "success")
    /\ NoteSuccess(t, SCRAPER)
    /\ Return(t, <<"data", "scraper", FALSE>>)
    /\ UNCHANGED <<api_fetcher, scraper_fetcher, preferred_source, used_fallback,
                   envVars, scrapeVars, pureVars, serviceVars>>

\* A symmetric fallback from the scraper to the API.
ScraperRaises_FallsBackToApi(t) ==
    /\ pc[t] = "await_scraper"
    /\ BelowCap(SCRAPER)
    /\ record_failure(SCRAPER)
    /\ Observe(SCRAPER, "failure")
    /\ IF api_fetcher[t]
       THEN /\ pc' = [pc EXCEPT ![t] = "await_api"]
            /\ calls' = [calls EXCEPT ![t].fail[SCRAPER] = @ + 1,
                                      ![t].inv[API] = @ + 1]
            /\ UNCHANGED result
       ELSE /\ NoteFailure(t, SCRAPER)
            /\ Return(t, <<"null", "none", used_fallback[t]>>)
    /\ UNCHANGED <<api_fetcher, scraper_fetcher, preferred_source, used_fallback,
                   envVars, scrapeVars, pureVars, serviceVars>>

\* lines 273-279: the preferred scraper_fetcher() raised
ScraperRaises(t) ==
    /\ pc[t] = "await_scraper"
    /\ BelowCap(SCRAPER)
    /\ record_failure(SCRAPER)
    /\ Observe(SCRAPER, "failure")
    /\ NoteFailure(t, SCRAPER)
    /\ Return(t, <<"null", "none", used_fallback[t]>>)
    /\ UNCHANGED <<api_fetcher, scraper_fetcher, preferred_source, used_fallback,
                   envVars, scrapeVars, pureVars, serviceVars>>

\* The operator's manual recovery.
ManualReset(s) ==
    /\ CallReset(s)
    /\ UNCHANGED <<wrapVars, envVars, scrapeVars, pureVars, serviceVars>>

\* ------------------------------------------------------ web_scraper.py
\* WebScrapingManager.__init__: SGEParser, CngoldParser, SinaParser
parsers == {"sge", "cngold", "sina"}

max_concurrent_parsers == 2
retry_attempts == 2
delay_between_parsers == <<5, 10>>

\* AntiDetectionManager.get_random_delay: random.uniform(min_delay,
\* max_delay), in seconds; the two ends of the range stand for its values.
get_random_delay(min_delay, max_delay) == {min_delay, max_delay}

NoSleep == [between |-> 0, retry |-> 0]

\* Nothing has been returned by the cycle yet.
NoOutput == [returned |-> FALSE, sources |-> {}]

ScrapeInit ==
    /\ cycle = "idle"
    /\ browser = "closed"
    /\ semaphore = 0
    /\ ppc = [p \in parsers |-> "idle"]
    /\ attempt = [p \in parsers |-> 0]
    /\ pages = [p \in parsers |-> 0]
    /\ outcome = [p \in parsers |-> "none"]
    /\ presult = [p \in parsers |-> "none"]
    /\ parse_calls = [p \in parsers |-> 0]
    /\ slept = [p \in parsers |-> NoSleep]
    /\ output = NoOutput

\* lines 111-135: the browser is launched, the semaphore and one task per
\* parser are created, and the cycle awaits asyncio.gather.
StartCycle ==
    /\ cycle \in {"idle", "returned"}
    /\ cycle' = "gather"
    /\ browser' = "open"
    /\ semaphore' = max_concurrent_parsers
    /\ ppc' = [p \in parsers |-> "waiting"]
    /\ attempt' = [p \in parsers |-> 0]
    /\ pages' = [p \in parsers |-> 0]
    /\ outcome' = [p \in parsers |-> "none"]
    /\ presult' = [p \in parsers |-> "none"]
    /\ parse_calls' = [p \in parsers |-> 0]
    /\ slept' = [p \in parsers |-> NoSleep]
    /\ output' = NoOutput
    /\ UNCHANGED <<fetchVars, pureVars, serviceVars>>

\* A semaphore that admits everybody.
SemaphoreFree_Unbounded == TRUE

\* asyncio.Semaphore.acquire returns at once only while the value is positive
SemaphoreFree == semaphore > 0

\* line 171: async with semaphore, entered; the loop of line 172 starts its
\* first attempt at once.
Acquire(p) ==
    /\ ppc[p] = "waiting"
    /\ SemaphoreFree
    /\ semaphore' = semaphore - 1
    /\ ppc' = [ppc EXCEPT ![p] = "new_page"]
    /\ UNCHANGED <<cycle, browser, attempt, pages, outcome, presult,
                   parse_calls, slept, output, fetchVars, pureVars, serviceVars>>

\* A loop that retries for ever.
AfterAttempt_AlwaysRetry(p) == "retry_delay"

\* lines 212-218: after an attempt that did not return, the task sleeps for
\* a retry while attempts remain and returns [] otherwise.
AfterAttempt(p) == IF attempt[p] < retry_attempts THEN "retry_delay" ELSE "done"

\* A task that returns and keeps its place in the semaphore.
GoTo_NoRelease(p, to, r) ==
    /\ ppc' = [ppc EXCEPT ![p] = to]
    /\ presult' = IF to = "done" THEN [presult EXCEPT ![p] = r] ELSE presult
    /\ semaphore' = semaphore

\* The task of p goes to `to`; on "done" it returns r and leaves the
\* async with block, which releases the semaphore.
GoTo(p, to, r) ==
    /\ ppc' = [ppc EXCEPT ![p] = to]
    /\ presult' = IF to = "done" THEN [presult EXCEPT ![p] = r] ELSE presult
    /\ semaphore' = IF to = "done" THEN semaphore + 1 ELSE semaphore

\* line 175: browser.new_page() returned
NewPage(p) ==
    /\ ppc[p] = "new_page"
    /\ pages' = [pages EXCEPT ![p] = @ + 1]
    /\ ppc' = [ppc EXCEPT ![p] = "parsing"]
    /\ outcome' = [outcome EXCEPT ![p] = "none"]
    /\ slept' = [slept EXCEPT ![p] = NoSleep]
    /\ UNCHANGED <<cycle, browser, semaphore, attempt, presult, parse_calls, output, fetchVars, pureVars, serviceVars>>

\* line 175 raised: caught at line 209, no page was opened
NewPageRaises(p) ==
    /\ ppc[p] = "new_page"
    /\ outcome' = [outcome EXCEPT ![p] = "no_page"]
    /\ slept' = [slept EXCEPT ![p] = NoSleep]
    /\ GoTo(p, AfterAttempt(p), "empty")
    /\ UNCHANGED <<cycle, browser, attempt, pages, parse_calls,
                   output, fetchVars, pureVars, serviceVars>>

AttemptOutcomes == {"data", "empty", "timeout", "exception"}

\* lines 179-197: the page set-up and parse_data under wait_for end with a
\* non-empty list, an empty list, a TimeoutError or another exception; each
\* way leads into the finally block of line 199.
AttemptEnds(p, o) ==
    /\ ppc[p] = "parsing"
    /\ outcome' = [outcome EXCEPT ![p] = o]
    /\ parse_calls' = [parse_calls EXCEPT ![p] = @ + 1]
    /\ ppc' = [ppc EXCEPT ![p] = "closing"]
    /\ UNCHANGED <<cycle, browser, semaphore, attempt, pages, presult, slept, output, fetchVars, pureVars, serviceVars>>

\* A close that only runs when the try block ends normally.
PagesAfterClose_NoFinally(p) ==
    IF outcome[p] \in {"timeout", "exception"} THEN pages
    ELSE [pages EXCEPT ![p] = @ - 1]

\* lines 199-200: finally: await page.close()
PagesAfterClose(p) == [pages EXCEPT ![p] = @ - 1]

\* A task that skips the sleep of line 205 after an empty list.
ClosePage_NoDelayAfterEmpty(p) ==
    /\ ppc[p] = "closing"
    /\ pages' = PagesAfterClose(p)
    /\ CASE outcome[p] = "data" -> GoTo(p, "done", "data")
         [] OTHER -> GoTo(p, AfterAttempt(p), "empty")
    /\ UNCHANGED <<cycle, browser, attempt, outcome, parse_calls, slept, output, fetchVars, pureVars, serviceVars>>

\* lines 199-215: the page is closed; then the return of line 195, the sleep
\* of line 205 after an empty list, or the handlers of lines 207-210.
ClosePage(p) ==
    /\ ppc[p] = "closing"
    /\ pages' = PagesAfterClose(p)
    /\ CASE outcome[p] = "data" -> GoTo(p, "done", "data")
         [] outcome[p] = "empty" ->
                GoTo(p, IF attempt[p] < retry_attempts THEN "delay"
                        ELSE AfterAttempt(p), "empty")
         [] OTHER -> GoTo(p, AfterAttempt(p), "empty")
    /\ UNCHANGED <<cycle, browser, attempt, outcome, parse_calls, slept, output, fetchVars, pureVars, serviceVars>>

\* line 205: the delay_between_parsers sleep is over; line 212 follows
DelayEnds(p) ==
    /\ ppc[p] = "delay"
    /\ \E delay \in get_random_delay(delay_between_parsers[1],
                                     delay_between_parsers[2]) :
          slept' = [slept EXCEPT ![p].between = delay]
    /\ GoTo(p, AfterAttempt(p), "empty")
    /\ UNCHANGED <<cycle, browser, attempt, pages, outcome, parse_calls, output, fetchVars, pureVars, serviceVars>>

\* A retry sleep that is only taken after an empty list.
retry_delay_OnlyAfterEmpty(p) ==
    IF outcome[p] = "empty" THEN {2, 5} ELSE {0}

\* line 214: random.uniform(2, 5), whatever the attempt of p ended with
retry_delay(p) == {2, 5}

\* line 215: the retry sleep is over; the loop takes its next attempt
RetryDelayEnds(p) ==
    /\ ppc[p] = "retry_delay"
    /\ \E d \in retry_delay(p) : slept' = [slept EXCEPT ![p].retry = d]
    /\ attempt' = [attempt EXCEPT ![p] = @ + 1]
    /\ ppc' = [ppc EXCEPT ![p] = "new_page"]
    /\ UNCHANGED <<cycle, browser, semaphore, pages, outcome, presult,
                   parse_calls, output, fetchVars, pureVars, serviceVars>>

\* A join that returns with the first finished task.
AllTasksDone_FirstCompleted == \E p \in parsers : ppc[p] = "done"

\* line 135: asyncio.gather returns when every task has returned
AllTasksDone == \A p \in parsers : ppc[p] = "done"

\* A cycle that gives up its results when a task ended on an error.
CollectResults_AbortOnError ==
    IF \E p \in parsers : outcome[p] \in {"timeout", "exception", "no_page"}
    THEN {}
    ELSE {p \in parsers : presult[p] = "data"}

\* lines 138-142: all_results is extended with every list a task returned;
\* the parsers whose records it holds
CollectResults == {p \in parsers : presult[p] = "data"}

\* lines 135-152: gather returned, the results are collected, the browser is
\* closed and the cycle returns the validated records.
Join ==
    /\ cycle = "gather"
    /\ AllTasksDone
    /\ output' = [returned |-> TRUE, sources |-> CollectResults]
    /\ browser' = "closed"
    /\ cycle' = "returned"
    /\ UNCHANGED <<semaphore, ppc, attempt, pages, outcome, presult,
                   parse_calls, slept, fetchVars, pureVars, serviceVars>>

\* ------------------------- WebScrapingManager.test_all_parsers (probe)
\* self.parsers, in the order __init__ appends them
parser_order == <<"sge", "cngold", "sina">>

\* The parser the for loop of line 328 is at: the first one not yet probed.
ProbeAt(p) ==
    /\ cycle = "probing"
    /\ \E i \in 1..Len(parser_order) :
          /\ parser_order[i] = p
          /\ ppc[p] # "done"
          /\ \A j \in 1..(i - 1) : ppc[parser_order[j]] = "done"

\* lines 325-328: the browser is launched and the loop starts
StartProbe ==
    /\ cycle \in {"idle", "probed"}
    /\ cycle' = "probing"
    /\ browser' = "open"
    /\ ppc' = [p \in parsers |-> "new_page"]
    /\ pages' = [p \in parsers |-> 0]
    /\ outcome' = [p \in parsers |-> "none"]
    /\ presult' = [p \in parsers |-> "none"]
    /\ output' = NoOutput
    /\ UNCHANGED <<semaphore, attempt, parse_calls, slept, fetchVars, pureVars, serviceVars>>

\* line 330: browser.new_page() returned
ProbeNewPage(p) ==
    /\ ProbeAt(p)
    /\ ppc[p] = "new_page"
    /\ pages' = [pages EXCEPT ![p] = @ + 1]
    /\ ppc' = [ppc EXCEPT ![p] = "testing"]
    /\ UNCHANGED <<cycle, browser, semaphore, attempt, outcome, presult,
                   parse_calls, slept, output, fetchVars, pureVars, serviceVars>>

\* line 330 raised: the handler of lines 343-345 records False
ProbeNewPageRaises(p) ==
    /\ ProbeAt(p)
    /\ ppc[p] = "new_page"
    /\ outcome' = [outcome EXCEPT ![p] = "no_page"]
    /\ presult' = [presult EXCEPT ![p] = "false"]
    /\ ppc' = [ppc EXCEPT ![p] = "done"]
    /\ UNCHANGED <<cycle, browser, semaphore, attempt, pages, parse_calls,
                   slept, output, fetchVars, pureVars, serviceVars>>

\* lines 343-345: the handler does not close the page
PagesAfterProbeRaises(p) == pages

\* lines 331-341 returned: test_connection (or the goto of line 338) gave
\* success, which is recorded, and the page is closed by line 341
ProbeReturns(p, success) ==
    /\ ProbeAt(p)
    /\ ppc[p] = "testing"
    /\ outcome' = [outcome EXCEPT ![p] = "tested"]
    /\ presult' = [presult EXCEPT ![p] = IF success THEN "true" ELSE "false"]
    /\ pages' = [pages EXCEPT ![p] = @ - 1]
    /\ ppc' = [ppc EXCEPT ![p] = "done"]
    /\ UNCHANGED <<cycle, browser, semaphore, attempt, parse_calls, slept,
                   output, fetchVars, pureVars, serviceVars>>

\* set_user_agent, test_connection or goto (lines 331-338) raised: the
\* handler of lines 343-345 records False and the loop goes on
ProbeRaises(p) ==
    /\ ProbeAt(p)
    /\ ppc[p] = "testing"
    /\ outcome' = [outcome EXCEPT ![p] = "exception"]
    /\ presult' = [presult EXCEPT ![p] = "false"]
    /\ pages' = PagesAfterProbeRaises(p)
    /\ ppc' = [ppc EXCEPT ![p] = "done"]
    /\ UNCHANGED <<cycle, browser, semaphore, attempt, parse_calls, slept,
                   output, fetchVars, pureVars, serviceVars>>

\* lines 347-350: the loop is over, browser.close() closes the browser with
\* every page still open in it, and results is returned
ProbeEnds ==
    /\ cycle = "probing"
    /\ \A p \in parsers : ppc[p] = "done"
    /\ browser' = "closed"
    /\ pages' = [p \in parsers |-> 0]
    /\ cycle' = "probed"
    /\ output' = [returned |-> TRUE,
                  sources |-> {p \in parsers : presult[p] = "true"}]
    /\ UNCHANGED <<semaphore, ppc, attempt, outcome, presult, parse_calls,
                   slept, fetchVars, pureVars, serviceVars>>

\* --------------------------------------------------------------- parsers
\* Strings with underscores are modelled as the sequences of their parts:
\* "cngold_table_0" is <<"cngold", "table", "0">>.  The Chinese instrument
\* names are written in pinyin: HuangjinT+D, XianhuoHuangjin, Huangjin9999,
\* ZhiHuangjin(RMB), ZhiHuangjin(USD), BaiyinT+D, XianhuoBaiyin, HujinZhuli,
\* HuyinZhuli.
MaxCandidates == 3
MaxTable == 1

ParserNames == {"cngold", "sina"}

\* CngoldParser.target_products and SinaParser.target_products
target_products ==
    [c \in ParserNames |->
        IF c = "cngold"
        THEN {"HuangjinT+D", "XianhuoHuangjin", "Huangjin9999",
              "ZhiHuangjin(RMB)", "ZhiHuangjin(USD)", "BaiyinT+D",
              "XianhuoBaiyin"}
        ELSE {"XAUUSD", "HujinZhuli", "HuangjinT+D", "XAGUSD", "HuyinZhuli",
              "BaiyinT+D"}]

\* The priority entries of CngoldParser.product_mapping and
\* SinaParser.product_mapping
product_mapping ==
    [c \in ParserNames |->
        IF c = "cngold"
        THEN ("HuangjinT+D" :> 1) @@ ("XianhuoHuangjin" :> 2)
             @@ ("Huangjin9999" :> 3) @@ ("ZhiHuangjin(RMB)" :> 4)
             @@ ("ZhiHuangjin(USD)" :> 5) @@ ("BaiyinT+D" :> 6)
             @@ ("XianhuoBaiyin" :> 7)
        ELSE ("XAUUSD" :> 1) @@ ("HujinZhuli" :> 2) @@ ("HuangjinT+D" :> 3)
             @@ ("XAGUSD" :> 4) @@ ("HuyinZhuli" :> 5) @@ ("BaiyinT+D" :> 6)]

\* BaseParser.standardize_symbol: symbol_mapping
symbol_mapping ==
    ("Au99.99" :> "AU9999") @@ ("Au(T+D)" :> "AUTD") @@ ("mAu(T+D)" :> "MAUTD")
    @@ ("Au99.95" :> "AU9995") @@ ("Au100g" :> "AU100G")
    @@ ("HuangjinT+D" :> "GOLD_TD") @@ ("XianhuoHuangjin" :> "SPOT_GOLD")
    @@ ("Huangjin9999" :> "GOLD_9999")
    @@ ("ZhiHuangjin(RMB)" :> "PAPER_GOLD_CNY")
    @@ ("ZhiHuangjin(USD)" :> "PAPER_GOLD_USD") @@ ("XAUUSD" :> "XAUUSD")
    @@ ("HujinZhuli" :> "SHFE_GOLD_MAIN")

\* BaseParser.standardize_symbol: symbol_mapping.get(symbol, symbol)
standardize_symbol(symbol) ==
    IF symbol = "" THEN ""
    ELSE IF symbol \in DOMAIN symbol_mapping THEN symbol_mapping[symbol]
    ELSE symbol

GoldPriceData(source, symbol, price, timestamp) ==
    [source |-> source, symbol |-> symbol, price |-> price,
     timestamp |-> timestamp]

\* BaseParser.create_gold_data for a price and a time that pass validate_data:
\* the source is self.name.lower() and the symbol is standardized.
create_gold_data(c, symbol, price, timestamp) ==
    GoldPriceData(<<c>>, standardize_symbol(symbol), price, timestamp)

\* _extract_table_row_data: gold_data.source = f"<name>_table_{table_index}"
table_row(c, name, table_index) ==
    [create_gold_data(c, name, 500, 1) EXCEPT
        !.source = <<c, "table", ToString(table_index)>>]

\* _parse_market_ticker: "cngold_ticker"; _extract_quote_data: "sina_quote"
widget_item(c, name) ==
    [create_gold_data(c, name, 500, 1) EXCEPT
        !.source = <<c, IF c = "cngold" THEN "ticker" ELSE "quote">>]

\* The records _deduplicate_and_sort of parser c may be given: rows of the
\* tables, items of the ticker or quote widget, and records whose source was
\* left as create_gold_data set it.
Candidates(c) ==
    {table_row(c, n, i) : n \in target_products[c], i \in 0..MaxTable}
    \cup {widget_item(c, n) : n \in target_products[c]}
    \cup {create_gold_data(c, n, 500, 1) : n \in target_products[c]}

\* Python's `pattern in source` on the parts of the two strings
Contains(source, pattern) ==
    \E i \in 1..(Len(source) - Len(pattern) + 1) :
        SubSeq(source, i, i + Len(pattern) - 1) = pattern

\* CngoldParser._get_source_priority / SinaParser._get_source_priority
_get_source_priority(c, source) ==
    IF Contains(source, <<IF c = "cngold" THEN "ticker" ELSE "quote">>) THEN 1
    ELSE IF Contains(source, <<"table", "0">>) THEN 2
    ELSE IF Contains(source, <<"table">>) THEN 3
    ELSE 99

\* The keys of a dict that was filled in the order of `keys`
RECURSIVE DictKeys(_)
DictKeys(keys) ==
    IF keys = <<>> THEN <<>>
    ELSE LET front == DictKeys(SubSeq(keys, 1, Len(keys) - 1))
             k == keys[Len(keys)]
         IN  IF \E i \in 1..Len(front) : front[i] = k THEN front
             ELSE Append(front, k)

\* list.sort(key=...): a stable sort of records that carry their key
RECURSIVE StableSort(_)
StableSort(pairs) ==
    IF pairs = <<>> THEN <<>>
    ELSE LET sorted == StableSort(SubSeq(pairs, 1, Len(pairs) - 1))
             last == pairs[Len(pairs)]
             k == Cardinality({i \in 1..Len(sorted) : sorted[i].key <= last.key})
         IN  SubSeq(sorted, 1, k) \o <<last>> \o SubSeq(sorted, k + 1, Len(sorted))

\* A dedup that keeps the first candidate of each symbol.
BestItem_First(c, items) == items[1]

\* line 300: min(items, key=...), the first item of the least source priority
BestItem(c, items) ==
    items[CHOOSE i \in 1..Len(items) :
            /\ \A j \in 1..Len(items) :
                  _get_source_priority(c, items[i].source)
                      <= _get_source_priority(c, items[j].source)
            /\ \A j \in 1..(i - 1) :
                  _get_source_priority(c, items[j].source)
                      > _get_source_priority(c, items[i].source)]

\* line 304: product_mapping.get(x.symbol, {"priority": 99})["priority"]
SortKey(c, symbol) ==
    IF symbol \in DOMAIN product_mapping[c] THEN product_mapping[c][symbol]
    ELSE 99

\* CngoldParser._deduplicate_and_sort / SinaParser._deduplicate_and_sort
_deduplicate_and_sort(c, list) ==
    LET symbols == DictKeys([i \in 1..Len(list) |-> list[i].symbol])
        items(symbol) == SelectSeq(list, LAMBDA d : d.symbol = symbol)
        results == [i \in 1..Len(symbols) |-> BestItem(c, items(symbols[i]))]
        sorted == StableSort([i \in 1..Len(results) |->
                                [key |-> SortKey(c, results[i].symbol),
                                 item |-> results[i]]])
    IN  [i \in 1..Len(sorted) |-> sorted[i].item]

\* No page, text or payload is under study.
NoInputs == page = <<>> /\ text = <<>> /\ payload = <<>>

\* No dedup function is under study.
NoDedupCall ==
    /\ callee = "none"
    /\ data_list = <<>>
    /\ returned = <<>>
    /\ called = FALSE
    /\ NoInputs

\* parse_data collects one more record (lines 98-103)
Collect(d) ==
    /\ ~called
    /\ Len(data_list) < MaxCandidates
    /\ data_list' = Append(data_list, d)
    /\ UNCHANGED <<callee, returned, called, inputVars, fetchVars, scrapeVars, serviceVars>>

CollectCandidate == \E d \in Candidates(callee) : Collect(d)

\* line 106: results = self._deduplicate_and_sort(results)
DeduplicateAndSort ==
    /\ ~called
    /\ called' = TRUE
    /\ returned' = _deduplicate_and_sort(callee, data_list)
    /\ UNCHANGED <<callee, data_list, inputVars, fetchVars, scrapeVars, serviceVars>>

\* ------------------------------------------------------------ parse_data
\* The instrument names a page shows are sequences of parts, so that Python's
\* `alt in name` is Contains(name, alt): "Hujin" "Lianxu" is a name that
\* holds the alias Hujin of the Shanghai gold main contract, and mAu(T+D) is
\* "m" followed by "Au(T+D)".
MaxRows == 2

\* The string a sequence of parts stands for
RECURSIVE Text(_)
Text(parts) ==
    IF parts = <<>> THEN "" ELSE Head(parts) \o Text(Tail(parts))

\* SGEParser.target_contracts
target_contracts ==
    {"Au99.99", "Au(T+D)", "mAu(T+D)", "Au99.95", "Au100g", "Ag99.9",
     "Ag(T+D)"}

\* The keys of SinaParser.product_mapping in the order of the dict
product_order ==
    <<"XAUUSD", "HujinZhuli", "HuangjinT+D", "XAGUSD", "HuyinZhuli",
      "BaiyinT+D">>

\* The symbol_alt entries of SinaParser.product_mapping
symbol_alt ==
    ("XAUUSD" :> << <<"Xianhuo", "Huangjin">>, <<"Guoji", "Jinjia">> >>)
    @@ ("HujinZhuli" :> << <<"Hujin">>, <<"AU", "Zhuli">> >>)
    @@ ("HuangjinT+D" :> << <<"Au(T+D)">>, <<"Huangjin", "Yanqi">> >>)
    @@ ("XAGUSD" :> << <<"Xianhuo", "Baiyin">>, <<"Guoji", "Yinjia">> >>)
    @@ ("HuyinZhuli" :> << <<"Huyin">>, <<"AG", "Zhuli">> >>)
    @@ ("BaiyinT+D" :> << <<"Ag(T+D)">>, <<"Baiyin", "Yanqi">> >>)

\* The aliases of all products
Aliases ==
    {symbol_alt[p][k] : p \in DOMAIN symbol_alt, k \in 1..2}

\* The names a page of parser c may show in a row or a widget item: the names
\* the parser tracks, names that hold a tracked name or an alias, names of
\* instruments nobody tracks (platinum), and the empty name.
PageNames(c) ==
    CASE c = "sge" ->
            {<<"Au99.99">>, <<"Au(T+D)">>, <<"m", "Au(T+D)">>, <<"Au99.95">>,
             <<"Au100g">>, <<"Ag99.9">>, <<"Ag(T+D)">>,
             <<"i", "Au99.99">>, <<"Pt99.95">>, <<>>}
      [] c = "cngold" ->
            {<<"Huangjin", "T+D">>, <<"Xianhuo", "Huangjin">>,
             <<"Huangjin", "9999">>, <<"ZhiHuangjin", "(RMB)">>,
             <<"ZhiHuangjin", "(USD)">>, <<"Baiyin", "T+D">>,
             <<"Xianhuo", "Baiyin">>,
             <<"Guoji", "Xianhuo", "Huangjin">>, <<"Bojin">>, <<>>}
      [] c = "sina" ->
            {<<"XAUUSD">>, <<"Hujin", "Zhuli">>, <<"Huangjin", "T+D">>,
             <<"XAGUSD">>, <<"Huyin", "Zhuli">>, <<"Baiyin", "T+D">>}
            \cup Aliases
            \cup {<<"Hujin", "Lianxu">>, <<"m", "Au(T+D)">>,
                  <<"Guoji", "Xianhuo", "Huangjin">>, <<"Bojin">>, <<>>}

\* The regions of a page: its tables by index and its ticker or quote widget
\* (index 0); the SGE page has one table.
PageRegions(c) ==
    IF c = "sge" THEN {[kind |-> "table", index |-> 0]}
    ELSE {[kind |-> "table", index |-> i] : i \in 0..MaxTable}
         \cup {[kind |-> "widget", index |-> 0]}

PageItems(c) ==
    {[name |-> n, kind |-> r.kind, index |-> r.index] :
        n \in PageNames(c), r \in PageRegions(c)}

\* A matcher that hands every name on as a product.
_match_product_name_PassThrough(name) == Text(name)

\* SinaParser._match_product_name; "" stands for None
_match_product_name(name) ==
    IF name = <<>> THEN ""
    ELSE IF Text(name) \in target_products["sina"] THEN Text(name)
    ELSE LET hits == {i \in 1..Len(product_order) :
                        \E k \in 1..Len(symbol_alt[product_order[i]]) :
                            Contains(name, symbol_alt[product_order[i]][k])}
         IN  IF hits = {} THEN ""
             ELSE product_order[CHOOSE i \in hits : \A j \in hits : i <= j]

\* The symbol under which parser c records a row or item of this name, ""
\* when it skips the row: SGEParser._extract_row_data (lines 137-140),
\* CngoldParser._extract_row_data (lines 176-181) and _parse_market_ticker
\* (line 245), SinaParser._extract_table_row_data and _extract_quote_element
TrackedAs(c, name) ==
    CASE c = "sge" ->
            IF Text(name) \in target_contracts THEN Text(name) ELSE ""
      [] c = "cngold" ->
            IF Text(name) \in target_products["cngold"] THEN Text(name) ELSE ""
      [] c = "sina" -> _match_product_name(name)

\* The records one row or widget item gives: none or one
ExtractItem(c, item) ==
    LET symbol == TrackedAs(c, item.name)
    IN  IF symbol = "" THEN <<>>
        ELSE IF c = "sge" THEN <<create_gold_data(c, symbol, 500, 1)>>
        ELSE IF item.kind = "table" THEN <<table_row(c, symbol, item.index)>>
        ELSE <<widget_item(c, symbol)>>

\* results.append(...) over the rows or items in their order on the page
RECURSIVE ExtractAll(_, _)
ExtractAll(c, items) ==
    IF items = <<>> THEN <<>>
    ELSE ExtractItem(c, Head(items)) \o ExtractAll(c, Tail(items))

\* _parse_tables: the rows of the tables 0..table_index, table by table
RECURSIVE _parse_tables(_, _, _)
_parse_tables(c, items, table_index) ==
    IF table_index < 0 THEN <<>>
    ELSE _parse_tables(c, items, table_index - 1)
         \o ExtractAll(c, SelectSeq(items, LAMBDA it :
                it.kind = "table" /\ it.index = table_index))

\* _parse_market_ticker / _parse_quote_data
_parse_widget(c, items) ==
    ExtractAll(c, SelectSeq(items, LAMBDA it : it.kind = "widget"))

\* The list `results` of parse_data before it is returned or deduplicated
ParseResults(c, items) ==
    IF c = "sge" THEN ExtractAll(c, items)
    ELSE _parse_tables(c, items, MaxTable) \o _parse_widget(c, items)

\* SGEParser.parse_data returns results as they are; CngoldParser.parse_data
\* and SinaParser.parse_data return _deduplicate_and_sort(results)
parse_data(c, items) ==
    IF c = "sge" THEN ParseResults(c, items)
    ELSE _deduplicate_and_sort(c, ParseResults(c, items))

\* The page shows one more row or widget item.
PageShows(item) ==
    /\ ~called
    /\ Len(page) < MaxRows
    /\ page' = Append(page, item)
    /\ UNCHANGED <<callee, data_list, returned, called, text, payload,
                   fetchVars, scrapeVars, serviceVars>>

PageGrows == \E item \in PageItems(callee) : PageShows(item)

\* parse_data(page)
ParseData ==
    /\ ~called
    /\ called' = TRUE
    /\ data_list' = ParseResults(callee, page)
    /\ returned' = parse_data(callee, page)
    /\ UNCHANGED <<callee, page, text, payload, fetchVars, scrapeVars, serviceVars>>

\* ------------------------------------- BaseParser: clean_price_text etc.
\* A price text is a sequence of characters; a float is the exact fraction
\* num / den with den a power of ten.
MaxText == 5

DigitValue == ("0" :> 0) @@ ("1" :> 1)
Digits == DOMAIN DigitValue

\* The characters of a price text: digits, the decimal point, a character
\* that line 91 removes (the comma), white space and the minus sign.
Characters == Digits \cup {".", ",", " ", "-"}

Float(num, den) == [num |-> num, den |-> den]
Zero_0 == Float(0, 1)

\* price_range = (100.0, 10000.0)
price_range == <<100, 10000>>

\* price_range[0] <= price <= price_range[1]
InPriceRange(price) ==
    /\ price_range[1] * price.den <= price.num
    /\ price.num <= price_range[2] * price.den

\* str.strip()
RECURSIVE strip(_)
strip(s) ==
    IF s = <<>> THEN s
    ELSE IF Head(s) = " " THEN strip(Tail(s))
    ELSE IF s[Len(s)] = " " THEN strip(SubSeq(s, 1, Len(s) - 1))
    ELSE s

\* The invalid_values a text of these characters can be: "--" and ""
invalid_values == {<<"-", "-">>, <<>>}

\* line 91: re.sub(r'[...,\s]', '', cleaned)
RemoveSeparators(s) == SelectSeq(s, LAMBDA ch : ch \notin {",", " "})

\* The length of the longest run of digits of s that starts at index i
RECURSIVE DigitRun(_, _)
DigitRun(s, i) ==
    IF i > Len(s) \/ s[i] \notin Digits THEN 0 ELSE 1 + DigitRun(s, i + 1)

\* line 94: re.search(r'(\d+\.?\d*)', cleaned): the first digits of the text,
\* a point if one follows them, and the digits after the point; <<>> when the
\* text has no digit
number_match(cleaned) ==
    IF \A i \in 1..Len(cleaned) : cleaned[i] \notin Digits THEN <<>>
    ELSE LET start == CHOOSE i \in 1..Len(cleaned) :
                          /\ cleaned[i] \in Digits
                          /\ \A j \in 1..(i - 1) : cleaned[j] \notin Digits
             whole == DigitRun(cleaned, start)
             point == start + whole
             dotted == point <= Len(cleaned) /\ cleaned[point] = "."
             fraction == IF dotted THEN DigitRun(cleaned, point + 1) ELSE 0
         IN  SubSeq(cleaned, start,
                    point - 1 + (IF dotted THEN 1 + fraction ELSE 0))

\* int() of a sequence of digits
RECURSIVE DigitsValue(_)
DigitsValue(ds) ==
    IF ds = <<>> THEN 0
    ELSE 10 * DigitsValue(SubSeq(ds, 1, Len(ds) - 1)) + DigitValue[ds[Len(ds)]]

RECURSIVE PowerOfTen(_)
PowerOfTen(n) == IF n = 0 THEN 1 ELSE 10 * PowerOfTen(n - 1)

\* float() of a text that number_match found
float(number) ==
    LET ds == SelectSeq(number, LAMBDA ch : ch \in Digits)
        whole == DigitRun(number, 1)
    IN  Float(DigitsValue(ds), PowerOfTen(Len(ds) - whole))

\* A cleaning that returns every number it finds.
clean_price_text_NoRangeCheck(this_text) ==
    LET cleaned == RemoveSeparators(strip(this_text))
    IN  IF number_match(cleaned) = <<>> THEN Zero_0
        ELSE float(number_match(cleaned))

\* BaseParser.clean_price_text
clean_price_text(this_text) ==
    LET cleaned == RemoveSeparators(strip(this_text))
        number == number_match(cleaned)
    IN  IF this_text = <<>> \/ strip(this_text) \in invalid_values
        THEN Zero_0
        ELSE IF number = <<>> THEN Zero_0
        ELSE IF ~InPriceRange(float(number)) THEN Zero_0
        ELSE float(number)

\* The price text grows by one character.
TextShows(ch) ==
    /\ ~called
    /\ Len(text) < MaxText
    /\ text' = Append(text, ch)
    /\ UNCHANGED <<callee, data_list, returned, called, page, payload,
                   fetchVars, scrapeVars, serviceVars>>

TextGrows == \E ch \in Characters : TextShows(ch)

\* clean_price_text(text)
CleanPriceText ==
    /\ ~called
    /\ called' = TRUE
    /\ callee' = "clean_price_text"
    /\ returned' = <<clean_price_text(text)>>
    /\ UNCHANGED <<data_list, text, page, payload, fetchVars, scrapeVars, serviceVars>>

\* str.lower() of the parser names
lower == ("SGE" :> "sge") @@ ("Cngold" :> "cngold") @@ ("Sina" :> "sina")

\* The symbols and currencies a parser may hand to create_gold_data: a
\* tracked name and the empty name; two supported currencies and one that is
\* not supported.
SymbolArgs == {"Au99.99", ""}
CurrencyArgs == {"CNY", "JPY", "GBP"}

\* A validation that takes every currency.
validate_data_AnyCurrency(data) ==
    /\ data.source \notin {<<>>, <<"">>} /\ data.symbol # ""
    /\ ~(data.price.num <= 0 \/ ~InPriceRange(data.price))
    /\ data.timestamp # None

\* BaseParser.validate_data
validate_data(data) ==
    /\ data.source \notin {<<>>, <<"">>} /\ data.symbol # ""
    /\ ~(data.price.num <= 0 \/ ~InPriceRange(data.price))
    /\ data.timestamp # None
    /\ data.currency \in {"CNY", "USD", "EUR", "JPY"}

\* BaseParser.create_gold_data of the parser called name, on a price text:
\* <<data>> when validate_data accepts the record, <<>> for None.  The
\* timestamp is the one format_timestamp makes, which is never empty.
create_gold_data_of_text(name, symbol, price, currency) ==
    LET data == [source |-> <<lower[name]>>,
                 symbol |-> standardize_symbol(symbol),
                 price |-> clean_price_text(price),
                 currency |-> currency,
                 timestamp |-> 1]
    IN  IF validate_data(data) THEN <<data>> ELSE <<>>

\* create_gold_data(symbol, text, currency=currency) of parser name
CreateGoldData(name, symbol, currency) ==
    /\ ~called
    /\ called' = TRUE
    /\ callee' = "create_gold_data"
    /\ data_list' = <<[name |-> name, symbol |-> symbol,
                       currency |-> currency]>>
    /\ returned' = create_gold_data_of_text(name, symbol, text, currency)
    /\ UNCHANGED <<text, page, payload, fetchVars, scrapeVars, serviceVars>>

CreateGoldDataCall ==
    \E name \in {"SGE", "Sina"}, symbol \in SymbolArgs,
       currency \in CurrencyArgs : CreateGoldData(name, symbol, currency)

\* ---------------------------------------------------------- DataValidator
\* A payload is a record: its type ("dict", "list", "number" or "str"), the
\* keys it has, and the values of the keys.  A timestamp is known by its age
\* in minutes at the time of the validation, or cannot be parsed; a price is
\* a number or a text float() cannot parse; a "str" payload holds the value
\* json.loads makes of it.
MaxItems == 2

\* DataValidator.validation_rules
required_fields == <<"price", "symbol", "timestamp">>
validation_price_range == <<50, 2000>>
max_price_change == 50
max_age_minutes == 60
min_data_points == 1
max_data_points == 100

Number(v) == [kind |-> "number", value |-> v]
BadText == [kind |-> "text", value |-> 0]
AgedStamp(age) == [kind |-> "iso", age |-> age]
BadStamp == [kind |-> "text", age |-> 0]

Item(fields, price, symbol) ==
    [fields |-> fields, price |-> price, symbol |-> symbol]

\* The items of a payload: an item has all three fields, or lacks its price,
\* its symbol or both, or has no field at all; its price is inside the range,
\* or a second one more than max_price_change away, or outside the range, or
\* no number; its symbol is empty or not.  The value of a field that is
\* absent is written as the first value of its kind.
Items ==
    {it \in [fields : {{"price", "symbol", "timestamp"},
                       {"symbol", "timestamp"}, {"price", "timestamp"},
                       {"timestamp"}, {}},
             price : {Number(100), Number(160), Number(3000), BadText},
             symbol : {"XAU", ""}] :
        /\ "price" \notin it.fields => it.price = Number(100)
        /\ "symbol" \notin it.fields => it.symbol = "XAU"}

ListOf(list) == [kind |-> "list", list |-> list]
NoneValue == [kind |-> "none", list |-> <<>>]

Dict(keys, status, timestamp, items) ==
    [type |-> "dict", keys |-> keys, status |-> status,
     timestamp |-> timestamp, items |-> items]

\* A JSON array and a JSON number: payloads that are no mapping
NonMapping(type) ==
    [type |-> type, keys |-> {}, status |-> "", timestamp |-> BadStamp,
     items |-> NoneValue]

\* The value of a key that is absent is written as the first value of its
\* kind.
Canonical(keys, status, timestamp) ==
    /\ "status" \notin keys => status = "success"
    /\ "timestamp" \notin keys => timestamp = AgedStamp(0)

Statuses == {"success", "error"}
Stamps == {AgedStamp(0), AgedStamp(75), AgedStamp(200), BadStamp}

\* The payloads without a list of items: mappings that have no items key or
\* whose items are None, a JSON array and a JSON number
ListlessPayloads ==
    {d \in {Dict(keys, status, timestamp, NoneValue) :
                keys \in SUBSET {"status", "timestamp", "source", "items"},
                status \in Statuses, timestamp \in Stamps} :
        Canonical(d.keys, d.status, d.timestamp)}
    \cup {NonMapping("list"), NonMapping("number")}

Malformed == NonMapping("malformed")
JsonText(value) == [NonMapping("str") EXCEPT !.items = ListOf(<<value>>)]

\* The payloads that are JSON texts: one that json.loads rejects, and the
\* texts of a mapping with and without the status key and of a number
TextPayloads ==
    {JsonText(Malformed), JsonText(NonMapping("number")),
     JsonText(Dict({"status", "timestamp", "source", "items"}, "success",
                   AgedStamp(0),
                   ListOf(<<Item({"price", "symbol", "timestamp"},
                                 Number(100), "XAU")>>))),
     JsonText(Dict({"timestamp", "source"}, "success", AgedStamp(0),
                   NoneValue))}

\* json.loads(data): the value of the text; Malformed stands for the
\* JSONDecodeError
json_loads(data) == data.items.list[1]

\* `key in data`
Has(data, key) == data.type = "dict" /\ key \in data.keys

Min2(a, b) == IF a <= b THEN a ELSE b

Check(score, issues, warnings) ==
    [score |-> score, issues |-> issues, warnings |-> warnings]

\* A structure check to which a missing status is a warning.
_validate_structure_StatusWarning(data) ==
    Check(100 - (IF ~Has(data, "status") THEN 20
                 ELSE IF data.status # "success" THEN 10 ELSE 0)
              - (IF ~Has(data, "timestamp") THEN 5 ELSE 0)
              - (IF ~Has(data, "source") THEN 5 ELSE 0),
          <<>>,
          (IF ~Has(data, "status") THEN <<"no status">>
           ELSE IF data.status # "success" THEN <<"status">> ELSE <<>>)
          \o (IF ~Has(data, "timestamp") THEN <<"no timestamp">> ELSE <<>>)
          \o (IF ~Has(data, "source") THEN <<"no source">> ELSE <<>>))

\* DataValidator._validate_structure
_validate_structure(data) ==
    Check(100 - (IF ~Has(data, "status") THEN 20
                 ELSE IF data.status # "success" THEN 10 ELSE 0)
              - (IF ~Has(data, "timestamp") THEN 5 ELSE 0)
              - (IF ~Has(data, "source") THEN 5 ELSE 0),
          IF ~Has(data, "status") THEN <<"no status">> ELSE <<>>,
          (IF Has(data, "status") /\ data.status # "success"
           THEN <<"status">> ELSE <<>>)
          \o (IF ~Has(data, "timestamp") THEN <<"no timestamp">> ELSE <<>>)
          \o (IF ~Has(data, "source") THEN <<"no source">> ELSE <<>>))

\* float(item["price"]) succeeds
Parseable(item) == "price" \in item.fields /\ item.price.kind = "number"

\* DataValidator._validate_item
_validate_item(item, index) ==
    LET missing == SelectSeq(required_fields,
                             LAMBDA field : field \notin item.fields)
        in_range == /\ validation_price_range[1] <= item.price.value
                    /\ item.price.value <= validation_price_range[2]
        no_symbol == "symbol" \in item.fields /\ item.symbol = ""
    IN  Check(100 - 30 * Len(missing)
                  - (IF "price" \notin item.fields THEN 0
                     ELSE IF ~Parseable(item) THEN 25
                     ELSE IF ~in_range THEN 20 ELSE 0)
                  - (IF no_symbol THEN 10 ELSE 0),
              [i \in 1..Len(missing) |->
                  "item " \o ToString(index) \o " no " \o missing[i]]
              \o (IF "price" \in item.fields /\ ~Parseable(item)
                  THEN <<"item " \o ToString(index) \o " price">> ELSE <<>>),
              (IF Parseable(item) /\ ~in_range
               THEN <<"item " \o ToString(index) \o " range">> ELSE <<>>)
              \o (IF no_symbol
                  THEN <<"item " \o ToString(index) \o " symbol">> ELSE <<>>))

\* The issues or warnings of the items, in the order of the items
RECURSIVE ItemNotes(_, _)
ItemNotes(items, field) ==
    IF items = <<>> THEN <<>>
    ELSE ItemNotes(SubSeq(items, 1, Len(items) - 1), field)
         \o (IF field = "issues"
             THEN _validate_item(items[Len(items)], Len(items) - 1).issues
             ELSE _validate_item(items[Len(items)], Len(items) - 1).warnings)

\* DataValidator._validate_content
_validate_content(items) ==
    LET item_count == Len(items)
        valid_items == Cardinality({i \in 1..item_count :
                          _validate_item(items[i], i - 1).score >= 60})
        few == item_count < min_data_points
        many == ~few /\ item_count > max_data_points
        low == item_count > 0 /\ 2 * valid_items < item_count
        lowish == item_count > 0 /\ ~low /\ 5 * valid_items < 4 * item_count
    IN  Check(100 - (IF few THEN 30 ELSE IF many THEN 10 ELSE 0)
                  - (IF low THEN 40 ELSE IF lowish THEN 15 ELSE 0),
              (IF few THEN <<"few items">> ELSE <<>>)
              \o ItemNotes(items, "issues")
              \o (IF low THEN <<"valid ratio">> ELSE <<>>),
              (IF many THEN <<"many items">> ELSE <<>>)
              \o ItemNotes(items, "warnings")
              \o (IF lowish THEN <<"valid ratio">> ELSE <<>>))

\* DataValidator._validate_timeliness
_validate_timeliness(data) ==
    IF ~Has(data, "timestamp") THEN Check(100, <<>>, <<>>)
    ELSE IF data.timestamp.kind # "iso" THEN Check(90, <<>>, <<"timestamp">>)
    ELSE IF data.timestamp.age > max_age_minutes
    THEN Check(100 - Min2(30, data.timestamp.age - max_age_minutes),
               <<>>, <<"old">>)
    ELSE Check(100, <<>>, <<>>)

SetMax(S) == CHOOSE x \in S : \A y \in S : y <= x
SetMin(S) == CHOOSE x \in S : \A y \in S : x <= y

\* DataValidator._validate_consistency
_validate_consistency(data) ==
    IF ~Has(data, "items") \/ Len(data.items.list) < 2
    THEN Check(100, <<>>, <<>>)
    ELSE LET items == data.items.list
             prices == {items[i].price.value :
                           i \in {j \in 1..Len(items) : Parseable(items[j])}}
             counted == Cardinality({j \in 1..Len(items) : Parseable(items[j])})
         IN  IF counted >= 2 /\ SetMax(prices) - SetMin(prices) > max_price_change
             THEN Check(85, <<>>, <<"spread">>)
             ELSE Check(100, <<>>, <<>>)

\* lines 95-105: ValidationResult(is_valid, score, issues, warnings, ...);
\* raised tells that the call raised instead of returning.
ValidationResult(score, issues, warnings) ==
    [raised |-> FALSE, is_valid |-> Len(issues) = 0 /\ score >= 60,
     score |-> score, issues |-> issues, warnings |-> warnings]

\* A validation without the handler of lines 91-93.
Handled_Reraise(issues, warnings) ==
    [ValidationResult(0, issues, warnings) EXCEPT !.raised = TRUE]

\* lines 91-93: except Exception: issues.append(...); score = 0.0
Handled(issues, warnings) ==
    ValidationResult(0, Append(issues, "exception"), warnings)

\* lines 69-89, on the parsed payload: `"status" not in data` raises on a
\* number, len(items) raises on items that are None
RunChecks(parsed_data) ==
    IF parsed_data.type = "number" THEN Handled(<<>>, <<>>)
    ELSE LET s == _validate_structure(parsed_data)
             has_items == Has(parsed_data, "items")
         IN  IF has_items /\ parsed_data.items.kind = "none"
             THEN Handled(s.issues, s.warnings)
             ELSE LET c == IF has_items
                           THEN _validate_content(parsed_data.items.list)
                           ELSE Check(100, <<"no items">>, <<>>)
                      t == _validate_timeliness(parsed_data)
                      k == _validate_consistency(parsed_data)
                      score == IF has_items
                               THEN Min2(Min2(100, s.score), c.score)
                               ELSE Min2(100, s.score) - 30
                  IN  ValidationResult(
                          Min2(Min2(score, t.score), k.score),
                          s.issues \o c.issues,
                          s.warnings \o c.warnings \o t.warnings
                              \o k.warnings)

\* DataValidator.validate_gold_data
validate_gold_data(data) ==
    IF data.type = "str" /\ json_loads(data) = Malformed
    THEN [ValidationResult(0, <<"json">>, <<>>) EXCEPT !.is_valid = FALSE]
    ELSE RunChecks(IF data.type = "str" THEN json_loads(data) ELSE data)

\* validate_gold_data(data)
ValidateGoldData(data) ==
    /\ ~called
    /\ called' = TRUE
    /\ callee' = "validate_gold_data"
    /\ payload' = <<data>>
    /\ returned' = validate_gold_data(data)
    /\ UNCHANGED <<data_list, page, text, fetchVars, scrapeVars, serviceVars>>

\* validate_gold_data on a payload without a list of items or on a text, or
\* on a mapping with a list of up to MaxItems items
ValidateGoldDataCall ==
    /\ ~called
    /\ \/ \E data \in ListlessPayloads \cup TextPayloads :
              ValidateGoldData(data)
       \/ \E keys \in SUBSET {"status", "timestamp", "source"},
             status \in Statuses, timestamp \in Stamps, k \in 0..MaxItems :
              \E list \in [1..k -> Items] :
                  /\ Canonical(keys, status, timestamp)
                  /\ ValidateGoldData(Dict(keys \cup {"items"}, status,
                                           timestamp, ListOf(list)))

\* ------------------------------------------- DataValidator.compare_sources
MaxQuotes == 2

\* An item with all its fields
Quote(symbol, price) ==
    Item({"price", "symbol", "timestamp"}, Number(price), symbol)

\* The items of the payloads that are compared: gold at prices that differ by
\* 0, 5, 8 and 13, and silver at prices that differ by 0 and 5
Quotes ==
    {Quote("XAU", price) : price \in {100, 105, 113}}
    \cup {Quote("XAG", price) : price \in {100, 105}}

\* A fresh and complete payload of these items
QuotePayload(list) ==
    Dict({"status", "timestamp", "source", "items"}, "success", AgedStamp(0),
         ListOf(list))

\* Payloads that are malformed: a text that is no JSON, a number, a mapping
\* whose items are None, a mapping without items, and a mapping with a
\* timestamp and a price that cannot be parsed
OddPayloads ==
    {JsonText(Malformed), NonMapping("number"),
     Dict({"status", "timestamp", "source", "items"}, "success", AgedStamp(0),
          NoneValue),
     Dict({"status", "timestamp", "source"}, "success", AgedStamp(0),
          NoneValue),
     Dict({"status", "timestamp", "source", "items"}, "success", BadStamp,
          ListOf(<<Quote("XAU", 100),
                   Item({"price", "symbol", "timestamp"}, BadText, "XAG")>>))}

\* data.get("items", [])
ItemsOf_get(data) == IF Has(data, "items") THEN data.items.list ELSE <<>>

\* DataValidator._extract_prices: the items that have a symbol and a price
\* float() can parse
Priced(data) ==
    {i \in 1..Len(ItemsOf_get(data)) :
        /\ "symbol" \in ItemsOf_get(data)[i].fields
        /\ Parseable(ItemsOf_get(data)[i])}

\* DataValidator._extract_prices: prices.keys()
PricedSymbols(data) == {ItemsOf_get(data)[i].symbol : i \in Priced(data)}

\* DataValidator._extract_prices: prices[symbol], the price of the last item
\* of this symbol
_extract_prices(data, symbol) ==
    LET last == SetMax({i \in Priced(data) :
                           ItemsOf_get(data)[i].symbol = symbol})
    IN  ItemsOf_get(data)[last].price.value

\* json.loads of a text that is no JSON, .get of a value that is no mapping
\* or len() of items that are None raises inside the try of compare_sources
ComparisonRaises(data) ==
    LET parsed == IF data.type = "str" THEN json_loads(data) ELSE data
    IN  \/ parsed.type # "dict"
        \/ Has(parsed, "items") /\ parsed.items.kind = "none"

abs(x) == IF x < 0 THEN 0 - x ELSE x

RECURSIVE SeqSum(_)
SeqSum(s) == IF s = <<>> THEN 0 ELSE Head(s) + SeqSum(Tail(s))

\* The orders in which a set may be iterated
Orders(S) ==
    {order \in [1..Cardinality(S) -> S] :
        \A i, j \in 1..Cardinality(S) : order[i] = order[j] => i = j}

\* A discrepancy test that includes the threshold.
Discrepancy_AtThreshold(diff) == diff >= 5

\* line 295: if diff > 5.0
Discrepancy(diff) == diff > 5

\* A score that is not clamped at zero.
ConsistencyScore_Unclamped(price_diffs) ==
    Float(100 * Len(price_diffs) - SeqSum(price_diffs) * 10, Len(price_diffs))

\* lines 302-303: avg_diff = sum(price_diffs) / len(price_diffs);
\* max(0, 100 - avg_diff * 10), as an exact fraction
ConsistencyScore(price_diffs) ==
    LET scaled == 100 * Len(price_diffs) - SeqSum(price_diffs) * 10
    IN  Float(IF scaled < 0 THEN 0 ELSE scaled, Len(price_diffs))

\* A comparison that starts from a full score.
InitialScore_Full == Float(100, 1)

\* line 265: "consistency_score": 0.0
InitialScore == Zero_0

\* The comparison dict; raised tells that the call raised instead of
\* returning, which it does when validate_gold_data raises at line 273 or 274.
Comparison(api_validation, scraper_validation, score, differences) ==
    [raised |-> api_validation.raised \/ scraper_validation.raised,
     api_validation |-> api_validation,
     scraper_validation |-> scraper_validation,
     consistency_score |-> score,
     differences |-> differences]

\* DataValidator.compare_sources, when set(...) & set(...) is iterated in
\* this order of the common symbols
compare_sources(api_data, scraper_data, order) ==
    LET api_validation == validate_gold_data(api_data)
        scraper_validation == validate_gold_data(scraper_data)
        api_parsed == IF api_data.type = "str" THEN json_loads(api_data)
                      ELSE api_data
        scraper_parsed == IF scraper_data.type = "str"
                          THEN json_loads(scraper_data) ELSE scraper_data
        api_count == Len(ItemsOf_get(api_parsed))
        scraper_count == Len(ItemsOf_get(scraper_parsed))
        price_diffs == [i \in 1..Len(order) |->
                           abs(_extract_prices(api_parsed, order[i])
                               - _extract_prices(scraper_parsed, order[i]))]
        reported == SelectSeq([i \in 1..Len(order) |->
                                  [symbol |-> order[i], diff |-> price_diffs[i]]],
                              LAMBDA d : Discrepancy(d.diff))
    IN  IF ComparisonRaises(api_data) \/ ComparisonRaises(scraper_data)
        THEN Comparison(api_validation, scraper_validation, InitialScore,
                        <<"exception">>)
        ELSE Comparison(
                api_validation, scraper_validation,
                IF order = <<>> THEN InitialScore
                ELSE ConsistencyScore(price_diffs),
                (IF abs(api_count - scraper_count) > 5 THEN <<"count">>
                 ELSE <<>>)
                \o [i \in 1..Len(reported) |-> reported[i].symbol])

\* The symbols both payloads have a price of
common_symbols(api_data, scraper_data) ==
    IF ComparisonRaises(api_data) \/ ComparisonRaises(scraper_data) THEN {}
    ELSE PricedSymbols(api_data) \cap PricedSymbols(scraper_data)

\* compare_sources(api_data, scraper_data)
CompareSources(api_data, scraper_data) ==
    /\ ~called
    /\ called' = TRUE
    /\ callee' = "compare_sources"
    /\ payload' = <<api_data, scraper_data>>
    /\ \E order \in Orders(common_symbols(api_data, scraper_data)) :
          returned' = compare_sources(api_data, scraper_data, order)
    /\ UNCHANGED <<data_list, page, text, fetchVars, scrapeVars, serviceVars>>

\* An earlier call of compare_sources on payloads with a common symbol, of
\* which the sum and the number of the price differences and the score are
\* kept
EarlierComparison(api_data, scraper_data) ==
    /\ ~called
    /\ data_list = <<>>
    /\ common_symbols(api_data, scraper_data) # {}
    /\ \E order \in Orders(common_symbols(api_data, scraper_data)) :
          data_list' =
              <<[sum |-> SeqSum([i \in 1..Len(order) |->
                            abs(_extract_prices(api_data, order[i])
                                - _extract_prices(scraper_data, order[i]))]),
                 count |-> Len(order),
                 consistency_score |->
                     compare_sources(api_data, scraper_data,
                                     order).consistency_score]>>
    /\ UNCHANGED <<callee, returned, called, inputVars, fetchVars, scrapeVars, serviceVars>>

\* The payloads handed to compare_sources: malformed ones, and payloads of up
\* to MaxQuotes items
ComparedPayloads ==
    OddPayloads
    \cup UNION {{QuotePayload(list) : list \in [1..k -> Quotes]} :
                    k \in 0..MaxQuotes}

CompareSourcesCall ==
    /\ ~called
    /\ \E api_data \in ComparedPayloads, scraper_data \in ComparedPayloads :
          CompareSources(api_data, scraper_data)

EarlierComparisonCall ==
    /\ ~called
    /\ data_list = <<>>
    /\ \E api_data \in ComparedPayloads, scraper_data \in ComparedPayloads :
          EarlierComparison(api_data, scraper_data)

\* ------------------------- WebScrapingManager._validate_and_deduplicate
MaxStamp == 2

\* A record as a parser made it, with the price and the time of its making.
Stamped(d, price, timestamp) ==
    [d EXCEPT !.price = price, !.timestamp = timestamp]

\* Records the flattened all_results may hold: rows of the SGE parser, which
\* keeps the source "sge", and rows of the first table of Cngold and Sina,
\* each made at one of several times; and, for the sanity filter, a record
\* without a symbol and one without a positive price.
FlattenedRecords ==
    {Stamped(d, 500, t) :
        d \in {create_gold_data("sge", "Au99.99", 500, 1)}
              \cup {table_row(c, n, 0) : c \in ParserNames,
                                         n \in {"HuangjinT+D", "BaiyinT+D"}},
        t \in 1..MaxStamp}
    \cup {GoldPriceData(<<"sge">>, "", 500, 1),
          GoldPriceData(<<"sge">>, "AU9999", 0, 1)}

\* Python's order of the strings that occur in these records
SourceOrder == << <<"cngold", "table", "0">>, <<"sge">>, <<"sina", "table", "0">> >>
SymbolOrder == <<"AU9999", "GOLD_TD", "BaiyinT+D">>

Index(seq, x) == CHOOSE i \in 1..Len(seq) : seq[i] = x

\* A dedup that groups by symbol alone.
DedupKey_SymbolOnly(data) == <<data.symbol>>

\* line 243: key = (data.source, data.symbol)
DedupKey(data) == <<data.source, data.symbol>>

\* lines 235-251: unique_data, in the order its keys were inserted
RECURSIVE UniqueData(_)
UniqueData(list) ==
    IF list = <<>> THEN <<>>
    ELSE LET unique_data == UniqueData(SubSeq(list, 1, Len(list) - 1))
             data == list[Len(list)]
             known == \E i \in 1..Len(unique_data) :
                          DedupKey(unique_data[i]) = DedupKey(data)
         IN  IF data.symbol = "" \/ data.price <= 0 THEN unique_data
             ELSE IF ~known THEN Append(unique_data, data)
             ELSE [i \in 1..Len(unique_data) |->
                     IF /\ DedupKey(unique_data[i]) = DedupKey(data)
                        /\ data.timestamp > unique_data[i].timestamp
                     THEN data ELSE unique_data[i]]

\* WebScrapingManager._validate_and_deduplicate, with the sort of line 255
\* by (source, symbol)
_validate_and_deduplicate(list) ==
    LET results == UniqueData(list)
        sorted == StableSort([i \in 1..Len(results) |->
                    [key |-> Index(SourceOrder, results[i].source)
                                 * (Len(SymbolOrder) + 1)
                             + Index(SymbolOrder, results[i].symbol),
                     item |-> results[i]]])
    IN  [i \in 1..Len(sorted) |-> sorted[i].item]

\* lines 138-142: all_results.extend(result)
CollectResult == \E d \in FlattenedRecords : Collect(d)

\* line 149: validated_results = self._validate_and_deduplicate(all_results)
ValidateAndDeduplicate ==
    /\ ~called
    /\ called' = TRUE
    /\ returned' = _validate_and_deduplicate(data_list)
    /\ UNCHANGED <<callee, data_list, inputVars, fetchVars, scrapeVars, serviceVars>>

\* ------------------------------------------------ performance_monitor.py
\* Cap of stats["scraping_sessions"].
MaxSessions == 2

MonitorThreads == {"m1", "m2"}

\* Names are sequences of their parts: "scrape_duration" is
\* <<"scrape", "duration">>.
TimerNames == {<<"scrape">>}
MetricNames == {<<"latency">>}

\* GoldScraperPerformanceMonitor.__init__: the lock is a threading.Lock,
\* which its owner cannot acquire a second time.
MonitorInit ==
    /\ monitor = [lock |-> "free", timers |-> {}, current_metrics |-> {},
                  stats |-> [scraping_sessions |-> 0, successful_scrapes |-> 0,
                             failed_scrapes |-> 0]]
    /\ threads = [t \in MonitorThreads |-> [stack |-> <<>>, returned |-> "-"]]

\* A call of method op with argument arg, about to enter `with self._lock`.
Frame(op, arg) == [op |-> op, at |-> "lock", arg |-> arg]

Top(t) == threads[t].stack[Len(threads[t].stack)]

\* Thread t is inside the `with self._lock` block of method op.
InBody(t, op) ==
    /\ threads[t].stack # <<>>
    /\ Top(t).op = op
    /\ Top(t).at = "body"

\* The public methods and the arguments they are called with.
MonitorCalls ==
    {Frame("start_timer", n) : n \in TimerNames}
        \cup {Frame("end_timer", n) : n \in TimerNames}
        \cup {Frame("record_metric", n) : n \in MetricNames}
        \cup {Frame("record_scraping_session", <<s>>) : s \in {"success", "failure"}}
        \cup {Frame(op, <<>>) : op \in {"get_statistics", "get_current_metrics",
                                        "get_performance_summary", "export_metrics"}}

\* A thread with no call in progress calls a public method.
MonitorCall(t, frame) ==
    /\ threads[t].stack = <<>>
    /\ threads' = [threads EXCEPT ![t] = [stack |-> <<frame>>, returned |-> "-"]]
    /\ UNCHANGED <<monitor, web, fetchVars, scrapeVars, pureVars>>

\* with self._lock: Lock.acquire() returns only while nobody holds the
\* lock, the caller included.
AcquireLock(t) ==
    /\ threads[t].stack # <<>>
    /\ Top(t).at = "lock"
    /\ monitor.lock = "free"
    /\ monitor' = [monitor EXCEPT !.lock = t]
    /\ threads' = [threads EXCEPT ![t].stack[Len(threads[t].stack)].at = "body"]
    /\ UNCHANGED <<web, fetchVars, scrapeVars, pureVars>>

\* The method on top of t's stack returns value from inside its with block,
\* which releases the lock; m is the monitor it leaves.
Leave(t, m, value) ==
    /\ monitor' = [m EXCEPT !.lock = "free"]
    /\ threads' = [threads EXCEPT
                      ![t].stack = SubSeq(@, 1, Len(@) - 1),
                      ![t].returned = IF Len(threads[t].stack) = 1 THEN value
                                      ELSE @]
    /\ UNCHANGED <<web, fetchVars, scrapeVars, pureVars>>

\* The method on top of t's stack, still inside its with block, calls
\* method op of the monitor; m is the monitor at that point.
CallInside(t, m, op, arg) ==
    /\ monitor' = m
    /\ threads' = [threads EXCEPT ![t].stack =
                      Append([@ EXCEPT ![Len(@)].at = "call"], Frame(op, arg))]
    /\ UNCHANGED <<web, fetchVars, scrapeVars, pureVars>>

\* lines 74-75
start_timer(t) ==
    /\ InBody(t, "start_timer")
    /\ Leave(t, [monitor EXCEPT !.timers = @ \cup {Top(t).arg}], "None")

\* lines 88-104: an unknown timer returns None; a started one is popped and
\* record_metric is called from inside the with block
end_timer(t) ==
    /\ InBody(t, "end_timer")
    /\ IF Top(t).arg \notin monitor.timers
       THEN Leave(t, monitor, "None")
       ELSE CallInside(t, [monitor EXCEPT !.timers = @ \ {Top(t).arg}],
                       "record_metric", Top(t).arg \o <<"duration">>)

\* lines 124-140
record_metric(t) ==
    /\ InBody(t, "record_metric")
    /\ Leave(t, [monitor EXCEPT !.current_metrics = @ \cup {Top(t).arg}], "None")

\* lines 158-177: the statistics are updated and record_metric is called
\* from inside the with block (parser_name defaults to "unknown")
record_scraping_session(t) ==
    /\ InBody(t, "record_scraping_session")
    /\ monitor.stats.scraping_sessions < MaxSessions
    /\ CallInside(t,
          [monitor EXCEPT
              !.stats.scraping_sessions = @ + 1,
              !.stats.successful_scrapes =
                  IF Top(t).arg = <<"success">> THEN @ + 1 ELSE @,
              !.stats.failed_scrapes =
                  IF Top(t).arg = <<"success">> THEN @ ELSE @ + 1],
          "record_metric", <<"scrape", "success", "unknown">>)

\* lines 185-186
get_current_metrics(t) ==
    /\ InBody(t, "get_current_metrics")
    /\ Leave(t, monitor, "metrics")

\* lines 231-248
get_statistics(t) ==
    /\ InBody(t, "get_statistics")
    /\ Leave(t, monitor, "stats")

\* lines 252-259: get_statistics is called from inside the with block
get_performance_summary(t) ==
    /\ InBody(t, "get_performance_summary")
    /\ CallInside(t, monitor, "get_statistics", <<>>)

\* lines 330-332: get_statistics is called from inside the with block
export_metrics(t) ==
    /\ InBody(t, "export_metrics")
    /\ CallInside(t, monitor, "get_statistics", <<>>)

\* ------------------------------------------------ data_fetcher_extension.py
NotFetching == [at |-> "idle", max_retries |-> 0, retries |-> 0, cycles |-> 0,
                waited |-> 0, data |-> "-", items |-> {}, e |-> "-"]

ServiceInit == MonitorInit /\ web = NotFetching

\* Largest max_retries given to fetch_gold_price_web (its default is 2).
MaxRetries == 2

\* random.uniform(a, b): the two ends of the range stand for its values.
uniform(a, b) == {a, b}

min_retry_wait == 3
max_retry_wait == 5

\* lines 111-113: wait_time after the retries-th failed cycle
wait_time(retries) ==
    {base_wait + (retries - 1) * u :
        base_wait \in uniform(min_retry_wait, max_retry_wait), u \in uniform(1, 2)}

\* A loop that never gives up.
RetriesRemain_Always(retries, max_retries) == TRUE

\* lines 63 and 109: retries <= max_retries
RetriesRemain(retries, max_retries) == retries <= max_retries

\* lines 59-69: without a WebScrapingManager the call returns None at once;
\* otherwise the loop is entered and scrape_all_sources is awaited
FetchGoldPriceWeb(web_scraping_manager, max_retries) ==
    /\ web.at \in {"idle", "done"}
    /\ web' = IF web_scraping_manager /\ RetriesRemain(0, max_retries)
              THEN [at |-> "cycle", max_retries |-> max_retries, retries |-> 0,
                    cycles |-> 1, waited |-> 0, data |-> "-", items |-> {}, e |-> "-"]
              ELSE [at |-> "done", max_retries |-> max_retries, retries |-> 0,
                    cycles |-> 0, waited |-> 0, data |-> "null", items |-> {}, e |-> "-"]
    /\ UNCHANGED <<monitor, threads, fetchVars, scrapeVars, pureVars>>

\* What scrape_all_sources ends with: an exception, or the records of the
\* parsers in sources (none: the empty list).
CycleOutcomes ==
    {[raised |-> TRUE, sources |-> {}]}
        \cup {[raised |-> FALSE, sources |-> S] : S \in SUBSET parsers}

\* if not gold_data_list (line 71) does not hold
YieldsRecords(o) == ~o.raised /\ o.sources # {}

\* The exception the handler of line 107 catches after outcome o.
Caught(o) == IF o.raised THEN "Exception" ELSE "ValueError"

\* lines 69-118: scrape_all_sources returned records, which are formatted
\* per source and returned as JSON text; or it returned an empty list
\* (ValueError, line 72) or raised, and the handler of line 107 waits for a
\* retry or returns None
CycleEnds(o) ==
    /\ web.at = "cycle"
    /\ IF YieldsRecords(o)
       THEN web' = [web EXCEPT !.at = "done", !.data = "json",
                               !.items = o.sources]
       ELSE IF RetriesRemain(web.retries + 1, web.max_retries)
       THEN \E w \in wait_time(web.retries + 1) :
               web' = [web EXCEPT !.at = "wait", !.retries = @ + 1,
                                  !.waited = w, !.e = Caught(o)]
       ELSE web' = [web EXCEPT !.at = "done", !.retries = @ + 1,
                               !.data = "null", !.e = Caught(o)]
    /\ UNCHANGED <<monitor, threads, fetchVars, scrapeVars, pureVars>>

\* line 116: asyncio.sleep(wait_time) is over; the loop runs another cycle
WaitEnds ==
    /\ web.at = "wait"
    /\ web' = [web EXCEPT !.at = "cycle", !.cycles = @ + 1]
    /\ UNCHANGED <<monitor, threads, fetchVars, scrapeVars, pureVars>>

\* ------------------------------------------------------ specifications
\* Any sequence of direct calls of the three mutators.
MgrInit ==
    /\ ManagerInit /\ HistInit(TRUE) /\ WrapperInit /\ EnvInit /\ ScrapeInit
    /\ ServiceInit
    /\ NoDedupCall

DirectRecordSuccess(s) ==
    CallRecordSuccess(s) /\ UNCHANGED <<wrapVars, envVars, scrapeVars, pureVars, serviceVars>>

DirectRecordFailure(s) ==
    CallRecordFailure(s) /\ UNCHANGED <<wrapVars, envVars, scrapeVars, pureVars, serviceVars>>

DirectReset(s) ==
    CallReset(s) /\ UNCHANGED <<wrapVars, envVars, scrapeVars, pureVars, serviceVars>>

MgrNext ==
    \E s \in DataSourceType :
        \/ DirectRecordSuccess(s)
        \/ DirectRecordFailure(s)
        \/ DirectReset(s)

SpecMgr == MgrInit /\ [][MgrNext]_vars

\* Fetch cycles of concurrently running tasks, and manual resets.
Init ==
    /\ ManagerInit /\ HistInit(FALSE) /\ WrapperInit /\ EnvInit /\ ScrapeInit
    /\ ServiceInit
    /\ NoDedupCall

Next ==
    \/ \E t \in Tasks :
          \/ Call(t)
          \/ ApiReturns(t)
          \/ ApiRaises(t)
          \/ FallbackReturns(t)
          \/ FallbackRaises(t)
          \/ ScraperReturns(t)
          \/ ScraperRaises(t)
    \/ \E s \in DataSourceType : ManualReset(s)

Spec == Init /\ [][Next]_vars

\* Fetch cycles run one after the other with both fetchers supplied, every
\* awaited fetcher eventually returns or raises, and nobody resets a source.
\* From some point on the API fetcher may stop raising and the scraper
\* fetcher may stop returning.
LiveTask == "t1"

FetchStep ==
    \/ CallWith(LiveTask, TRUE, TRUE)
    \/ ApiReturns(LiveTask)
    \/ ApiRaises(LiveTask)
    \/ FallbackReturns(LiveTask)
    \/ FallbackRaises(LiveTask)
    \/ ScraperReturns(LiveTask)
    \/ ScraperRaises(LiveTask)

ApiComesUp ==
    /\ ~apiUp
    /\ apiUp' = TRUE
    /\ UNCHANGED <<mgrVars, histVars, wrapVars, scraperDown, scrapeVars, pureVars, serviceVars>>

ScraperGoesDown ==
    /\ ~scraperDown
    /\ scraperDown' = TRUE
    /\ UNCHANGED <<mgrVars, histVars, wrapVars, apiUp, scrapeVars, pureVars, serviceVars>>

LiveNext == FetchStep \/ ApiComesUp \/ ScraperGoesDown

SpecLive == Init /\ [][LiveNext]_vars /\ WF_vars(FetchStep)

\* Scraping cycles, one after the other.
ScrapeNext ==
    \/ StartCycle
    \/ Join
    \/ \E p \in parsers :
          \/ Acquire(p)
          \/ NewPage(p)
          \/ NewPageRaises(p)
          \/ \E o \in AttemptOutcomes : AttemptEnds(p, o)
          \/ ClosePage(p)
          \/ DelayEnds(p)
          \/ RetryDelayEnds(p)

SpecScrape == Init /\ [][ScrapeNext]_vars

\* Connectivity probes, one after the other.
ProbeNext ==
    \/ StartProbe
    \/ ProbeEnds
    \/ \E p \in parsers :
          \/ ProbeNewPage(p)
          \/ ProbeNewPageRaises(p)
          \/ \E success \in BOOLEAN : ProbeReturns(p, success)
          \/ ProbeRaises(p)

SpecProbe == Init /\ [][ProbeNext]_vars

\* Scraping cycles in which the event loop keeps running: while some task
\* can enter the semaphore, some awaited call or sleep can end or gather can
\* return, one of them eventually does.
ParserStep(p) ==
    \/ Acquire(p)
    \/ NewPage(p)
    \/ NewPageRaises(p)
    \/ \E o \in AttemptOutcomes : AttemptEnds(p, o)
    \/ ClosePage(p)
    \/ DelayEnds(p)
    \/ RetryDelayEnds(p)

ScrapeLiveNext == StartCycle \/ Join \/ \E p \in parsers : ParserStep(p)

ScrapeProgress == Join \/ \E p \in parsers : ParserStep(p)

SpecScrapeLive == Init /\ [][ScrapeLiveNext]_vars /\ WF_vars(ScrapeProgress)

\* A parser's _deduplicate_and_sort on every list of up to MaxCandidates
\* candidate records, in every order.
ParserDedupInit ==
    /\ ManagerInit /\ HistInit(FALSE) /\ WrapperInit /\ EnvInit /\ ScrapeInit
    /\ ServiceInit
    /\ callee \in ParserNames
    /\ data_list = <<>>
    /\ returned = <<>>
    /\ called = FALSE
    /\ NoInputs

ParserDedupNext == CollectCandidate \/ DeduplicateAndSort

SpecParserDedup == ParserDedupInit /\ [][ParserDedupNext]_vars

\* The manager's _validate_and_deduplicate on every list of up to
\* MaxCandidates flattened records.
ValidateInit ==
    /\ ManagerInit /\ HistInit(FALSE) /\ WrapperInit /\ EnvInit /\ ScrapeInit
    /\ ServiceInit
    /\ callee = "manager"
    /\ data_list = <<>>
    /\ returned = <<>>
    /\ called = FALSE
    /\ NoInputs

ValidateNext == CollectResult \/ ValidateAndDeduplicate

SpecValidate == ValidateInit /\ [][ValidateNext]_vars


\* parse_data of one parser on a page of up to MaxRows rows and items.
ParseDataInit ==
    /\ ManagerInit /\ HistInit(FALSE) /\ WrapperInit /\ EnvInit /\ ScrapeInit
    /\ ServiceInit
    /\ callee \in parsers
    /\ data_list = <<>>
    /\ returned = <<>>
    /\ called = FALSE
    /\ NoInputs

ParseDataNext == PageGrows \/ ParseData

SpecParseData == ParseDataInit /\ [][ParseDataNext]_vars

\* clean_price_text and create_gold_data on every price text of up to MaxText
\* characters.
PriceInit ==
    /\ ManagerInit /\ HistInit(FALSE) /\ WrapperInit /\ EnvInit /\ ScrapeInit
    /\ ServiceInit
    /\ NoDedupCall

PriceNext == TextGrows \/ CleanPriceText \/ CreateGoldDataCall

SpecPrice == PriceInit /\ [][PriceNext]_vars


\* validate_gold_data on every payload with up to MaxItems items, and
\* compare_sources on every pair of payloads of up to MaxQuotes items or
\* malformed.
ValidatorInit ==
    /\ ManagerInit /\ HistInit(FALSE) /\ WrapperInit /\ EnvInit /\ ScrapeInit
    /\ ServiceInit
    /\ NoDedupCall

ValidatorNext == ValidateGoldDataCall \/ CompareSourcesCall

SpecValidator == ValidatorInit /\ [][ValidatorNext]_vars


\* compare_sources after an earlier comparison or without one.
CompareNext == EarlierComparisonCall \/ CompareSourcesCall

SpecCompare == ValidatorInit /\ [][CompareNext]_vars

\* Threads calling the public methods of the performance monitor.
MonitorNext ==
    \E t \in MonitorThreads :
        \/ \E frame \in MonitorCalls : MonitorCall(t, frame)
        \/ AcquireLock(t)
        \/ start_timer(t)
        \/ end_timer(t)
        \/ record_metric(t)
        \/ record_scraping_session(t)
        \/ get_current_metrics(t)
        \/ get_statistics(t)
        \/ get_performance_summary(t)
        \/ export_metrics(t)

SpecMonitor == Init /\ [][MonitorNext]_vars

\* Calls of fetch_gold_price_web, one after the other.
WebNext ==
    \/ \E m \in BOOLEAN : \E max_retries \in 0..MaxRetries :
          FetchGoldPriceWeb(m, max_retries)
    \/ \E o \in CycleOutcomes : CycleEnds(o)
    \/ WaitEnds

SpecWeb == Init /\ [][WebNext]_vars

\* =============================================================== claims
Last(h) == h[Len(h)]

\* The relation between a source's status and its failure counter.
StatusMatchesCount(s) ==
    /\ failure_counts[s] >= 0
    /\ source_status[s] \in {UNKNOWN, HEALTHY} => failure_counts[s] = 0
    /\ source_status[s] = DEGRADED =>
           0 < failure_counts[s] /\ failure_counts[s] < failure_threshold(s)
    /\ source_status[s] = FAILED => failure_counts[s] >= failure_threshold(s)

\* C1 (as claimed): get_preferred_source() returns SCRAPER exactly when the
\* API status is FAILED and the SCRAPER status is not FAILED, and API in
\* every other state. The code prefers SCRAPER as soon as API is DEGRADED
\* and SCRAPER is HEALTHY or UNKNOWN, and prefers API when API is FAILED and
\* SCRAPER is DEGRADED.
C1_ScraperIffApiFailed ==
    (get_preferred_source = SCRAPER)
        <=> (source_status[API] = FAILED /\ source_status[SCRAPER] # FAILED)

\* C3: threshold consecutive record_failure calls from a count of 0 leave the
\* source FAILED, and the record_success that follows leaves it HEALTHY with
\* a count of 0.
C3_ThresholdFailuresThenSuccess ==
    \A s \in DataSourceType :
        /\ streak[s] = failure_threshold(s) => source_status[s] = FAILED
        /\ (Len(hist[s]) >= 2
              /\ Last(hist[s]).op = "success"
              /\ hist[s][Len(hist[s]) - 1].op = "failure"
              /\ hist[s][Len(hist[s]) - 1].pre = failure_threshold(s) - 1)
           => /\ hist[s][Len(hist[s]) - 1].status = FAILED
              /\ source_status[s] = HEALTHY
              /\ failure_counts[s] = 0

\* Both sources went through their threshold-th failure and then a success.
C3_Witness ==
    \A s \in DataSourceType :
        /\ Len(hist[s]) >= 2
        /\ Last(hist[s]).op = "success"
        /\ hist[s][Len(hist[s]) - 1].op = "failure"
        /\ hist[s][Len(hist[s]) - 1].pre = failure_threshold(s) - 1
        /\ hist[s][Len(hist[s]) - 1].status = FAILED

\* The last three mutator calls on s were failure, failure, success, the
\* first of them finding a count of 0.
TwoFailuresThenSuccess(s) ==
    /\ Len(hist[s]) = 3
    /\ hist[s][1].op = "failure" /\ hist[s][1].pre = 0
    /\ hist[s][2].op = "failure"
    /\ hist[s][3].op = "success"

\* C8: after any sequence of mutator calls the count is >= 0, UNKNOWN and
\* HEALTHY come with a count of 0, DEGRADED with 0 < count < threshold and
\* FAILED with count >= threshold; two API failures then a success give
\* DEGRADED, DEGRADED, HEALTHY and a count of 0.
C8_StatusCountInvariant ==
    /\ \A s \in DataSourceType : StatusMatchesCount(s)
    /\ TwoFailuresThenSuccess(API)
         => /\ hist[API][1].status = DEGRADED
            /\ hist[API][2].status = DEGRADED
            /\ hist[API][3].status = HEALTHY
            /\ failure_counts[API] = 0

\* The scenario has run on API while SCRAPER sits FAILED above its threshold.
C8_Witness ==
    /\ TwoFailuresThenSuccess(API)
    /\ source_status[SCRAPER] = FAILED
    /\ failure_counts[SCRAPER] > scraper_failure_threshold

Zero == [s \in DataSourceType |-> 0]
One(src) == [s \in DataSourceType |-> IF s = src THEN 1 ELSE 0]

\* C4 (as claimed): whenever the API fetcher fails, should_fallback(API) is
\* then true and a scraper fetcher was supplied, the scraper fetcher is
\* invoked, also when SCRAPER is already FAILED.
C4_FallbackInEveryState ==
    [][\A t \in Tasks :
          (ApiRaises(t) /\ should_fallback(API)' /\ scraper_fetcher[t])
              => (pc'[t] = "await_fallback" /\ calls'[t].inv[SCRAPER] = 1)]_vars

\* C4 (amended): when API is preferred and its fetcher fails,
\* record_failure(API) is called; the scraper fetcher is invoked exactly when
\* should_fallback(API) is then true, a scraper fetcher was supplied and the
\* SCRAPER status is not FAILED, and the call returns (data, "scraper", true)
\* after record_success(SCRAPER) or (null, "none", true) after
\* record_failure(SCRAPER); otherwise the call returns (null, "none", false)
\* without invoking the scraper fetcher.
C4_FallbackUnlessScraperFailed ==
    [][\A t \in Tasks :
          /\ ApiRaises(t) =>
               /\ preferred_source[t] = API
               /\ calls'[t].fail = One(API)
               /\ IF /\ should_fallback(API)'
                     /\ scraper_fetcher[t]
                     /\ source_status'[SCRAPER] # FAILED
                  THEN /\ pc'[t] = "await_fallback"
                       /\ calls'[t].inv[SCRAPER] = 1
                  ELSE /\ pc'[t] = "done"
                       /\ calls'[t].inv[SCRAPER] = 0
                       /\ result'[t] = <<"null", "none", FALSE>>
          /\ FallbackReturns(t) =>
               /\ calls'[t].succ = One(SCRAPER)
               /\ source_status'[SCRAPER] = HEALTHY
               /\ pc'[t] = "done"
               /\ result'[t] = <<"data", "scraper", TRUE>>
          /\ FallbackRaises(t) =>
               /\ calls'[t].fail = [s \in DataSourceType |-> 1]
               /\ pc'[t] = "done"
               /\ result'[t] = <<"null", "none", TRUE>>]_vars

\* One call fell back and failed there; another failed on API with both
\* sources FAILED and a scraper fetcher supplied, and did not fall back.
C4_Witness ==
    \E t, u \in Tasks :
        /\ pc[t] = "done"
        /\ result[t] = <<"null", "none", TRUE>>
        /\ calls[t].fail = [s \in DataSourceType |-> 1]
        /\ pc[u] = "done"
        /\ result[u] = <<"null", "none", FALSE>>
        /\ calls[u].fail = One(API)
        /\ calls[u].inv = One(API)
        /\ scraper_fetcher[u]
        /\ source_status[API] = FAILED
        /\ source_status[SCRAPER] = FAILED

\* C7: under concurrently running callers no failure increment is lost (the
\* counter equals the number of record_failure calls since the source's last
\* record_success / reset_source_status) and the status matches the counter.
C7_MutatorsSerialized ==
    \A s \in DataSourceType :
        /\ failure_counts[s] = streak[s]
        /\ StatusMatchesCount(s)

\* Two calls failed on API, the first reporting while the other task was
\* still inside its call, and both increments are in the counter.
C7_Witness ==
    \E t, u \in Tasks :
        /\ t # u
        /\ pc[t] = "done" /\ pc[u] = "done"
        /\ calls[t].fail = One(API) /\ calls[u].fail = One(API)
        /\ calls[t].conc
        /\ streak[API] = 2
        /\ failure_counts[API] = 2

\* C9: when the preferred source's fetcher returns, record_success is called
\* once for that source, no other fetcher is invoked, the call returns
\* (data, label of the preferred source, false), and that source is then
\* HEALTHY with a failure count of 0.
C9_PreferredSuccess ==
    [][\A t \in Tasks :
          /\ ApiReturns(t) =>
               /\ preferred_source[t] = API
               /\ calls'[t].succ = One(API)
               /\ calls'[t].fail = Zero
               /\ calls'[t].inv = One(API)
               /\ pc'[t] = "done"
               /\ result'[t] = <<"data", "api", FALSE>>
               /\ source_status'[API] = HEALTHY
               /\ failure_counts'[API] = 0
          /\ ScraperReturns(t) =>
               /\ preferred_source[t] = SCRAPER
               /\ calls'[t].succ = One(SCRAPER)
               /\ calls'[t].fail = Zero
               /\ calls'[t].inv = One(SCRAPER)
               /\ pc'[t] = "done"
               /\ result'[t] = <<"data", "scraper", FALSE>>
               /\ source_status'[SCRAPER] = HEALTHY
               /\ failure_counts'[SCRAPER] = 0]_vars

\* One call succeeded on its preferred API, another on its preferred SCRAPER.
C9_Witness ==
    \E t, u \in Tasks :
        /\ pc[t] = "done" /\ result[t] = <<"data", "api", FALSE>>
        /\ calls[t].succ = One(API)
        /\ pc[u] = "done" /\ result[u] = <<"data", "scraper", FALSE>>
        /\ calls[u].succ = One(SCRAPER)

\* C10: when SCRAPER is preferred and its fetcher fails, record_failure(SCRAPER)
\* is called once, the API fetcher is not invoked, the API status and count
\* are left as they were, and the call returns (null, "none", false).
C10_ScraperFailureNoFallback ==
    [][\A t \in Tasks :
          ScraperRaises(t) =>
              /\ preferred_source[t] = SCRAPER
              /\ calls'[t].fail = One(SCRAPER)
              /\ calls'[t].succ = Zero
              /\ calls'[t].inv = One(SCRAPER)
              /\ source_status'[API] = source_status[API]
              /\ failure_counts'[API] = failure_counts[API]
              /\ pc'[t] = "done"
              /\ result'[t] = <<"null", "none", FALSE>>]_vars

\* A call with both fetchers supplied failed on its preferred SCRAPER.
C10_Witness ==
    \E t \in Tasks :
        /\ pc[t] = "done"
        /\ preferred_source[t] = SCRAPER
        /\ api_fetcher[t] /\ scraper_fetcher[t]
        /\ calls[t].fail = One(SCRAPER)
        /\ result[t] = <<"null", "none", FALSE>>

\* C6 (as claimed): once the API fetcher succeeds whenever it is invoked, the
\* API status eventually is HEALTHY and API is the preferred source.
C6_ApiRecovers ==
    apiUp ~> (source_status[API] = HEALTHY /\ get_preferred_source = API)

\* C6 (amended): once the API fetcher succeeds whenever it is invoked and the
\* scraper fetcher fails whenever it is invoked, the API status eventually is
\* HEALTHY and API is the preferred source, without any manual reset.
C6_ApiRecoversOnceScraperFails ==
    (apiUp /\ scraperDown)
        ~> (source_status[API] = HEALTHY /\ get_preferred_source = API)

\* The API came back after the scraper had started to fail for good.
C6_Witness ==
    /\ apiUp /\ scraperDown
    /\ source_status[API] = HEALTHY
    /\ source_status[SCRAPER] \in {DEGRADED, FAILED}
    /\ pc[LiveTask] = "done"
    /\ result[LiveTask] = <<"data", "api", FALSE>>

\* Parser tasks that passed the admission gate and have not returned.
InFlight == {p \in parsers : ppc[p] \notin {"idle", "waiting", "done"}}

RECURSIVE SumPages(_)
SumPages(S) ==
    IF S = {} THEN 0
    ELSE LET p == CHOOSE q \in S : TRUE IN pages[p] + SumPages(S \ {p})

\* C2: in every interleaving of the parser tasks at most
\* max_concurrent_parsers of them are past the admission gate.
C2_BoundedInFlight ==
    /\ Cardinality(InFlight) <= max_concurrent_parsers
    /\ semaphore >= 0

\* The gate is full and a third parser is queued behind it.
C2_Witness ==
    /\ Cardinality(InFlight) = max_concurrent_parsers
    /\ \E p \in parsers : ppc[p] = "waiting"

\* C5: a parser task holds at most one open page, and only between opening
\* it and the end of the same attempt, whatever way the attempt ends; open
\* pages never exceed max_concurrent_parsers and none is open once the cycle
\* has returned.
C5_PagesClosed ==
    /\ \A p \in parsers :
          /\ pages[p] \in {0, 1}
          /\ pages[p] = 1 <=> ppc[p] \in {"parsing", "closing"}
    /\ SumPages(parsers) <= max_concurrent_parsers
    /\ cycle # "gather" => SumPages(parsers) = 0

\* A cycle has returned in which the parsers' last attempts ended by a
\* timeout, an exception and a non-empty result, each with a page open.
C5_Witness ==
    /\ cycle = "returned"
    /\ {outcome[p] : p \in parsers} = {"timeout", "exception", "data"}
    /\ SumPages(parsers) = 0

\* The triples fetch_data_with_fallback returns (lines 236, 255, 271, 279).
ResultTriples ==
    {<<"data", "api", FALSE>>, <<"data", "scraper", FALSE>>,
     <<"data", "scraper", TRUE>>} \cup {<<"null", "none", b>> : b \in BOOLEAN}

\* C11: whatever the fetchers do (return or raise) and whatever the health
\* state, a call of fetch_data_with_fallback never ends with the fetcher's
\* exception: it returns a result triple, each failed fetcher invocation has
\* its record_failure on that source, and a call all of whose invoked
\* fetchers failed returns (null, "none", _).
C11_FailuresRecordedNotRaised ==
    \A t \in Tasks :
        /\ pc[t] # "raised"
        /\ pc[t] = "done" =>
              /\ result[t] \in ResultTriples
              /\ \A s \in DataSourceType :
                    calls[t].succ[s] + calls[t].fail[s] = calls[t].inv[s]
              /\ (\A s \in DataSourceType : calls[t].succ[s] = 0) =>
                    /\ result[t][1] = "null"
                    /\ result[t][2] = "none"

\* Both fetchers were invoked by one call and both raised.
C11_Witness ==
    \E t \in Tasks :
        /\ pc[t] = "done"
        /\ calls[t].inv = [s \in DataSourceType |-> 1]
        /\ calls[t].fail = [s \in DataSourceType |-> 1]
        /\ result[t] = <<"null", "none", TRUE>>
        /\ failure_counts[SCRAPER] > 0

\* C15: with a free place for at least one task and every attempt ending,
\* a cycle that has started its tasks eventually returns with every parser
\* admitted through the semaphore, attempted at least once and joined.
C15_EveryParserAttempted ==
    (cycle = "gather") ~>
        (/\ cycle = "returned"
         /\ \A p \in parsers :
               /\ ppc[p] = "done"
               /\ outcome[p] # "none"
               /\ presult[p] \in {"data", "empty"})

\* All places were taken while a parser waited; it was attempted and joined.
C15_Witness ==
    /\ max_concurrent_parsers >= 1
    /\ cycle = "returned"
    /\ \A p \in parsers : ppc[p] = "done" /\ parse_calls[p] > 0

\* The ways an attempt ends without a list: wait_for timed out (line 207),
\* or new_page, the page set-up or parse_data raised (line 209).
AttemptErrors == {"timeout", "exception", "no_page"}

\* C12: in one cycle parse_data of a parser is called at most
\* retry_attempts + 1 times whatever the attempts end with, and after an
\* attempt that returned a non-empty list the parser's task only closes the
\* page and returns that list.
C12_RetriesBounded ==
    \A p \in parsers :
        /\ parse_calls[p] <= retry_attempts + 1
        /\ outcome[p] = "data" => ppc[p] \in {"closing", "done"}
        /\ (outcome[p] = "data" /\ ppc[p] = "done") => presult[p] = "data"

\* One parser used up all its attempts while another returned data at once.
C12_Witness ==
    \E p, q \in parsers :
        /\ ppc[p] = "done"
        /\ parse_calls[p] = retry_attempts + 1
        /\ presult[p] = "empty"
        /\ ppc[q] = "done"
        /\ parse_calls[q] = 1
        /\ presult[q] = "data"

\* C13: a parser that has ended an attempt of the cycle (by timeout,
\* exception or empty list) starts its next attempt only after a retry sleep
\* of 2 to 5 seconds.
C13_RetryDelayBetweenAttempts ==
    \A p \in parsers :
        (ppc[p] = "new_page" /\ outcome[p] # "none") =>
            slept[p].retry \in 2..5

\* A second attempt is about to start after a timeout.
C13_Witness ==
    \E p \in parsers :
        /\ ppc[p] = "new_page"
        /\ attempt[p] = 1
        /\ outcome[p] = "timeout"
        /\ slept[p].retry \in 2..5

\* C14: a parser that enters the semaphore after a different parser's task
\* returned does not stand at the start of its attempt before a
\* delay_between_parsers sleep was taken.
C14_DelayBetweenDistinctParsers ==
    [][\A p \in parsers :
          (Acquire(p) /\ \E q \in parsers \ {p} : ppc[q] = "done") =>
              ~(ppc'[p] = "new_page" /\ slept'[p].between = 0)]_vars

\* C16: while a task of the cycle has not returned the browser stays open;
\* a task whose last attempt ended on a timeout or an exception returns the
\* empty list; and the cycle returns the records of every parser whose task
\* returned data, whatever the other tasks ended with.
C16_ErrorsStayInTheirTask ==
    /\ \A p \in parsers : ppc[p] \notin {"idle", "done"} => browser = "open"
    /\ \A p \in parsers :
          (ppc[p] = "done" /\ outcome[p] \in AttemptErrors) =>
              presult[p] = "empty"
    /\ cycle = "returned" =>
          \A q \in parsers : outcome[q] = "data" => q \in output.sources

\* A cycle returned one parser's records although another parser timed out
\* or raised in its last attempt.
C16_Witness ==
    /\ cycle = "returned"
    /\ \E p, q \in parsers :
          /\ outcome[p] \in {"timeout", "exception"}
          /\ presult[p] = "empty"
          /\ outcome[q] = "data"
          /\ q \in output.sources

\* C17: the cycle's records are collected, deduplicated and returned only
\* once every parser task has returned, and then from all tasks together.
C17_FanInBeforeDedup ==
    output.returned =>
        /\ cycle = "returned"
        /\ \A p \in parsers : ppc[p] = "done"
        /\ output.sources = {p \in parsers : presult[p] = "data"}

\* A cycle returned the records of two parsers; the third returned nothing.
C17_Witness ==
    /\ output.returned
    /\ Cardinality(output.sources) = 2
    /\ \E p \in parsers : presult[p] = "empty" /\ attempt[p] = retry_attempts

\* The records of data_list that carry the symbol of d.
SameSymbol(d) == {i \in 1..Len(data_list) : data_list[i].symbol = d.symbol}

\* The rank of the page region a record was taken from: the ticker or quote
\* widget, the first table, a later table, or none that is known.
RegionRank(d) ==
    IF Len(d.source) = 2 THEN 1
    ELSE IF Len(d.source) = 3 /\ d.source[3] = "0" THEN 2
    ELSE IF Len(d.source) = 3 THEN 3
    ELSE 4

\* C19: for every list of candidates, in every order, a parser's
\* _deduplicate_and_sort returns exactly one record per symbol of the list,
\* and the record it returns for a symbol is a candidate from the best page
\* region among those of the symbol: ticker or quote widget, then the first
\* table, then the later tables, then unknown origin.
C19_OneBestRecordPerSymbol ==
    called =>
        /\ {returned[i].symbol : i \in 1..Len(returned)}
              = {data_list[i].symbol : i \in 1..Len(data_list)}
        /\ \A i, j \in 1..Len(returned) :
              returned[i].symbol = returned[j].symbol => i = j
        /\ \A i \in 1..Len(returned) :
              /\ \E k \in SameSymbol(returned[i]) : data_list[k] = returned[i]
              /\ \A k \in SameSymbol(returned[i]) :
                    RegionRank(returned[i]) <= RegionRank(data_list[k])

\* A symbol came from a later table, then from the widget, then from the
\* first table, and the widget's record was returned.
C19_Witness ==
    /\ called
    /\ Len(data_list) = 3
    /\ Len(returned) = 1
    /\ RegionRank(data_list[1]) = 3
    /\ RegionRank(data_list[2]) = 1
    /\ RegionRank(data_list[3]) = 2
    /\ returned[1] = data_list[2]

\* The instrument of the parser's allow-list a record's symbol stands for.
InstrumentOf(c, symbol) ==
    CHOOSE n \in target_products[c] : standardize_symbol(n) = symbol

\* C20: the list a parser's dedup step returns is in the order of the
\* product_mapping priority of its records' instruments, smaller first.
C20_SortedByInstrumentPriority ==
    called =>
        \A i, j \in 1..Len(returned) :
            i < j =>
                product_mapping[callee][InstrumentOf(callee, returned[i].symbol)]
                    <= product_mapping[callee]
                           [InstrumentOf(callee, returned[j].symbol)]

\* The valid records of data_list with the source and the symbol of d.
SameSourceAndSymbol(d) ==
    {i \in 1..Len(data_list) :
        /\ data_list[i].source = d.source
        /\ data_list[i].symbol = d.symbol
        /\ data_list[i].price > 0}

\* C18 as stated: the cycle's output holds at most one record per symbol,
\* and the record kept for a symbol comes from the best page region among
\* the symbol's candidates.
C18_OneRecordPerSymbol ==
    called =>
        /\ \A i, j \in 1..Len(returned) :
              returned[i].symbol = returned[j].symbol => i = j
        /\ \A i \in 1..Len(returned) :
              \A k \in SameSymbol(returned[i]) :
                  RegionRank(returned[i]) <= RegionRank(data_list[k])

\* C18, amended: the output holds exactly one record per (source, symbol)
\* pair of the valid flattened records (non-empty symbol, positive price),
\* so a symbol that several sources yielded is returned once per source;
\* the record kept for a pair is the first of its candidates with the
\* latest timestamp.
C18_OneRecordPerSourceAndSymbol ==
    called =>
        /\ \A i, j \in 1..Len(returned) :
              (/\ returned[i].source = returned[j].source
               /\ returned[i].symbol = returned[j].symbol) => i = j
        /\ \A i \in 1..Len(returned) :
              /\ returned[i].symbol # ""
              /\ \E k \in SameSourceAndSymbol(returned[i]) :
                    data_list[k] = returned[i]
              /\ \A k \in SameSourceAndSymbol(returned[i]) :
                    data_list[k].timestamp <= returned[i].timestamp
        /\ \A k \in 1..Len(data_list) :
              (data_list[k].symbol # "" /\ data_list[k].price > 0) =>
                  \E i \in 1..Len(returned) :
                      /\ returned[i].source = data_list[k].source
                      /\ returned[i].symbol = data_list[k].symbol

\* Two parsers yielded the same symbol, one of them twice; both sources'
\* records were returned, the later one for the source that had two.
C18_Witness ==
    /\ called
    /\ Len(data_list) = 3
    /\ data_list[1].symbol = data_list[2].symbol
    /\ data_list[1].source # data_list[2].source
    /\ data_list[3].source = data_list[1].source
    /\ data_list[3].symbol = data_list[1].symbol
    /\ data_list[3].timestamp > data_list[1].timestamp
    /\ Len(returned) = 2
    /\ \E i \in 1..2 : returned[i] = data_list[3]
    /\ \E i \in 1..2 : returned[i] = data_list[2]

\* C21: the list parse_data returns holds at most one record of each
\* standardized symbol, for every parser and every page.
C21_OneRecordPerSymbol ==
    called /\ callee \in parsers =>
        \A i, j \in 1..Len(returned) :
            returned[i].symbol = returned[j].symbol => i = j

\* The allow-list of parser c
AllowList(c) == IF c = "sge" THEN target_contracts ELSE target_products[c]

\* The name is in the allow-list of parser c or is an alias of its mapping
\* table (only Sina has aliases).
Listed(c, name) ==
    \/ Text(name) \in AllowList(c)
    \/ c = "sina" /\ name \in Aliases

\* The name is listed, or Sina finds an alias inside it.
ListedOrHoldsAlias(c, name) ==
    \/ Listed(c, name)
    \/ c = "sina" /\ \E alt \in Aliases : Contains(name, alt)

\* The rows and items of the page whose names satisfy Tracked
ItemsOf(Tracked(_, _)) ==
    {i \in 1..Len(page) : Tracked(callee, page[i].name)}

\* Every record collected or returned stems from a row or item whose name
\* satisfies Tracked, and the other rows and items gave no record.
RecordsOnlyFrom(Tracked(_, _)) ==
    called /\ callee \in parsers =>
        /\ Len(data_list) <= Cardinality(ItemsOf(Tracked))
        /\ \A k \in 1..Len(returned) :
              \E i \in ItemsOf(Tracked) :
                  ExtractItem(callee, page[i]) = <<returned[k]>>

C22_OnlyValidRecords ==
    called /\ callee = "create_gold_data" =>
        LET args == data_list[1]
            price == clean_price_text(text)
            valid_input ==
                /\ args.symbol # ""
                /\ price.num > 0
                /\ 100 * price.den <= price.num
                /\ price.num <= 10000 * price.den
                /\ args.currency \in {"CNY", "USD", "EUR", "JPY"}
        IN  /\ Len(returned) <= 1
            /\ returned # <<>> =>
                  /\ returned[1].source \notin {<<>>, <<"">>}
                  /\ returned[1].symbol # ""
                  /\ returned[1].price.num > 0
                  /\ 100 * returned[1].price.den <= returned[1].price.num
                  /\ returned[1].price.num <= 10000 * returned[1].price.den
                  /\ returned[1].currency \in {"CNY", "USD", "EUR", "JPY"}
            /\ ~valid_input => returned = <<>>

\* create_gold_data was given a price inside the band and a currency that
\* is not supported, and returned None.
C22_Witness ==
    /\ called
    /\ callee = "create_gold_data"
    /\ text = <<"1", "0", "0", ".", "1">>
    /\ data_list[1].symbol = "Au99.99"
    /\ data_list[1].currency = "GBP"
    /\ returned = <<>>

\* The payload validate_gold_data looked at, after json.loads
Parsed == IF payload[1].type = "str" THEN json_loads(payload[1]) ELSE payload[1]

\* C23: validate_gold_data returns is_valid = true only with an empty issues
\* list and a score of at least 60; a payload without the status key gets
\* is_valid = false, at least one issue and a score below 100.
C23_ValidOnlyWithoutIssues ==
    called /\ callee = "validate_gold_data" =>
        /\ returned.is_valid => returned.issues = <<>> /\ returned.score >= 60
        /\ ~(Parsed.type = "dict" /\ "status" \in Parsed.keys) =>
              /\ ~returned.is_valid
              /\ Len(returned.issues) >= 1
              /\ returned.score < 100

\* A fresh payload with three good items and no status key was validated.
C23_Witness ==
    /\ called
    /\ callee = "validate_gold_data"
    /\ payload[1].type = "dict"
    /\ payload[1].keys = {"timestamp", "source", "items"}
    /\ payload[1].timestamp = AgedStamp(0)
    /\ payload[1].items =
          ListOf(<<Item({"price", "symbol", "timestamp"}, Number(100), "XAU"),
                   Item({"price", "symbol", "timestamp"}, Number(100), "XAU")>>)
    /\ returned.score = 80
    /\ ~returned.is_valid

\* validate_gold_data ran its checks to the end: the text was JSON, and no
\* check raised.
ChecksRan ==
    /\ Parsed # Malformed
    /\ Parsed.type # "number"
    /\ ~(Has(Parsed, "items") /\ Parsed.items.kind = "none")

\* The scores of the four checks on the payload; a check that was not run
\* keeps the 100 it starts with.
CheckScores ==
    {_validate_structure(Parsed).score,
     IF Has(Parsed, "items") THEN _validate_content(Parsed.items.list).score
     ELSE 100,
     _validate_timeliness(Parsed).score,
     _validate_consistency(Parsed).score}

\* C24: the score validate_gold_data returns is the least of the scores of
\* the four checks, each of which lies between 0 and 100, and lies between 0
\* and 100 itself, also for a payload without an items key.
C24_ScoreIsMinOfChecks ==
    called /\ callee = "validate_gold_data" =>
        /\ 0 <= returned.score /\ returned.score <= 100
        /\ ChecksRan =>
              /\ \A s \in CheckScores : 0 <= s /\ s <= 100
              /\ returned.score = SetMin(CheckScores)

\* The payloads compare_sources was given, after json.loads
ApiParsed == IF payload[1].type = "str" THEN json_loads(payload[1]) ELSE payload[1]
ScraperParsed == IF payload[2].type = "str" THEN json_loads(payload[2]) ELSE payload[2]

\* The symbols both payloads of the call have a price of
Common == common_symbols(payload[1], payload[2])

\* The difference of the two prices of a common symbol
Diff(symbol) ==
    abs(_extract_prices(ApiParsed, symbol)
        - _extract_prices(ScraperParsed, symbol))

\* C26: compare_sources lists a discrepancy of a common symbol exactly when
\* the difference of its two prices is above 5: a difference of 8 is listed,
\* a difference of exactly 5 is not.
C26_DiscrepancyIffAboveThreshold ==
    called /\ callee = "compare_sources" =>
        \A symbol \in Common :
            /\ (\E i \in 1..Len(returned.differences) :
                    returned.differences[i] = symbol) <=> Diff(symbol) > 5
            /\ Diff(symbol) = 8 =>
                  \E i \in 1..Len(returned.differences) :
                      returned.differences[i] = symbol
            /\ Diff(symbol) = 5 =>
                  \A i \in 1..Len(returned.differences) :
                      returned.differences[i] # symbol

\* Two payloads were compared whose gold prices differ by 8 and whose silver
\* prices differ by 5, and only gold was listed.
C26_Witness ==
    /\ called
    /\ callee = "compare_sources"
    /\ Common = {"XAU", "XAG"}
    /\ Diff("XAU") = 8
    /\ Diff("XAG") = 5
    /\ returned.differences = <<"XAU">>

\* The sum of the price differences over the common symbols of the call
TotalDiff ==
    LET order == CHOOSE o \in Orders(Common) : TRUE
    IN  SeqSum([i \in 1..Len(order) |-> Diff(order[i])])

\* C25: for two payloads with a common symbol the consistency score lies in
\* [0, 100], is 100 when all matched prices are the same, and is not above
\* the score of an earlier comparison whose average price difference was not
\* larger (nor below the score of one whose average was not smaller).
C25_ScoreFallsWithAverageDifference ==
    called /\ callee = "compare_sources" /\ Common # {} =>
        LET score == returned.consistency_score
            count == Cardinality(Common)
        IN  /\ 0 <= score.num /\ score.num <= 100 * score.den
            /\ (\A symbol \in Common : Diff(symbol) = 0) =>
                  score.num = 100 * score.den
            /\ \A i \in 1..Len(data_list) :
                  LET earlier == data_list[i]
                      before == earlier.consistency_score
                  IN  /\ TotalDiff * earlier.count >= earlier.sum * count
                            => score.num * before.den <= before.num * score.den
                      /\ TotalDiff * earlier.count <= earlier.sum * count
                            => score.num * before.den >= before.num * score.den

\* After a comparison of payloads whose prices differ by 5 on average, one
\* with an average difference of 13 was given the score 0, and the average of
\* two symbols was taken.
C25_Witness ==
    /\ called
    /\ callee = "compare_sources"
    /\ Common = {"XAU"}
    /\ TotalDiff = 13
    /\ returned.consistency_score.num = 0
    /\ data_list # <<>>
    /\ data_list[1].count = 2
    /\ data_list[1].sum = 10
    /\ data_list[1].consistency_score = Float(100, 2)

\* An error occurs while this payload is validated: it is a text that is no
\* JSON, or a check raises on it.
ErrorDuringValidation(data) ==
    LET parsed == IF data.type = "str" THEN json_loads(data) ELSE data
    IN  \/ parsed = Malformed
        \/ parsed.type = "number"
        \/ Has(parsed, "items") /\ parsed.items.kind = "none"

\* The validation returned a result with a score, a list of issues and a
\* list of warnings, and the result is not valid if an error occurred.
StructuredResult(validation, data) ==
    /\ ~validation.raised
    /\ validation.is_valid \in BOOLEAN
    /\ validation.score \in 0..100
    /\ ErrorDuringValidation(data) =>
          ~validation.is_valid /\ Len(validation.issues) >= 1

\* C27: validate_gold_data and compare_sources never raise: on every input
\* validate_gold_data returns a ValidationResult, with is_valid = false when
\* an error occurred during the validation, and compare_sources returns its
\* comparison with the two validation results.
C27_StructuredResultsNeverRaise ==
    /\ called /\ callee = "validate_gold_data" =>
          StructuredResult(returned, payload[1])
    /\ called /\ callee = "compare_sources" =>
          /\ ~returned.raised
          /\ StructuredResult(returned.api_validation, payload[1])
          /\ StructuredResult(returned.scraper_validation, payload[2])

\* A text that is no JSON was compared with a number: both validations and
\* the comparison recorded the error.
C27_Witness ==
    /\ called
    /\ callee = "compare_sources"
    /\ payload = <<JsonText(Malformed), NonMapping("number")>>
    /\ returned.api_validation.issues = <<"json">>
    /\ returned.scraper_validation.issues = <<"exception">>
    /\ returned.differences = <<"exception">>
    /\ ~returned.raised

\* C30: reset_source_status(s), called in any state, sets the status of s to
\* UNKNOWN and its failure count to 0, and leaves the status and the failure
\* count of the other source and both last success times as they were.
C30_ResetFrame ==
    [][\A s \in DataSourceType :
          DirectReset(s) =>
              /\ source_status'[s] = UNKNOWN
              /\ failure_counts'[s] = 0
              /\ \A o \in DataSourceType \ {s} :
                    /\ source_status'[o] = source_status[o]
                    /\ failure_counts'[o] = failure_counts[o]
              /\ last_success_time' = last_success_time]_vars

\* API was reset after it had succeeded and then failed, while SCRAPER sits
\* FAILED: API is UNKNOWN with no failures and keeps its last success time.
C30_Witness ==
    /\ hist[API] # <<>>
    /\ Last(hist[API]).op = "reset"
    /\ Last(hist[API]).pre > 0
    /\ source_status[API] = UNKNOWN
    /\ failure_counts[API] = 0
    /\ last_success_time[API] # None
    /\ source_status[SCRAPER] = FAILED
    /\ failure_counts[SCRAPER] >= scraper_failure_threshold

\* Task t's call invokes the scraper fetcher in this step, as preferred
\* source (line 266) or as fallback (line 252).
InvokesScraper(t) ==
    /\ pc'[t] \in {"await_scraper", "await_fallback"}
    /\ pc'[t] # pc[t]

\* The SCRAPER status is FAILED before this step and not after it.
ScraperLeavesFailed ==
    source_status[SCRAPER] = FAILED /\ source_status'[SCRAPER] # FAILED

\* A scraper fetcher that task t invoked earlier returns in this step.
ScraperFetcherReturns(t) ==
    /\ pc[t] \in {"await_scraper", "await_fallback"}
    /\ pc'[t] = "done"
    /\ result'[t][1] = "data"

\* C31 (as claimed): once the SCRAPER status is FAILED no call invokes the
\* scraper fetcher, and therefore SCRAPER stays FAILED until
\* reset_source_status(SCRAPER) is called.
C31_FailedUntilReset ==
    [][/\ \A t \in Tasks : source_status[SCRAPER] = FAILED => ~InvokesScraper(t)
       /\ ScraperLeavesFailed => ManualReset(SCRAPER)]_vars

\* C31 (amended): while the SCRAPER status is FAILED no call invokes the
\* scraper fetcher, as preferred source or as fallback, whatever the API
\* status and the outcome of the API fetcher; SCRAPER leaves FAILED only by
\* reset_source_status(SCRAPER) or by the return of a scraper fetcher that a
\* concurrent call invoked before the status became FAILED.
C31_NotInvokedWhileFailed ==
    [][/\ \A t \in Tasks : source_status[SCRAPER] = FAILED => ~InvokesScraper(t)
       /\ ScraperLeavesFailed =>
              \/ ManualReset(SCRAPER)
              \/ \E t \in Tasks :
                    /\ ScraperFetcherReturns(t)
                    /\ calls[t].inv[SCRAPER] = 1
                    /\ source_status'[SCRAPER] = HEALTHY]_vars

\* With SCRAPER FAILED, one call with both fetchers supplied failed on API
\* (API being FAILED) without invoking the scraper fetcher, while the other
\* task is still inside a scraper fetcher it invoked earlier.
C31_Witness ==
    \E t, u \in Tasks :
        /\ source_status[SCRAPER] = FAILED
        /\ source_status[API] = FAILED
        /\ pc[t] = "done"
        /\ api_fetcher[t] /\ scraper_fetcher[t]
        /\ calls[t].inv = One(API)
        /\ calls[t].fail = One(API)
        /\ result[t] = <<"null", "none", FALSE>>
        /\ pc[u] = "await_scraper"

\* C32 (as claimed): in test_all_parsers every page opened for a parser is
\* closed before the probe moves on to the next parser, on the success path
\* and when navigation or test_connection raises; a raising probe is
\* reported as false and the remaining parsers are still probed. The handler
\* of lines 343-345 does not close the page: it stays open until
\* browser.close().
C32_PageClosedBeforeNextParser ==
    /\ \A p \in parsers :
          /\ (cycle = "probing" /\ ppc[p] = "done") => pages[p] = 0
          /\ outcome[p] \in {"exception", "no_page"} => presult[p] = "false"
    /\ cycle = "probed" => \A p \in parsers : presult[p] # "none"

\* C33 (as claimed): every public operation of the performance monitor
\* leaves the lock released, so that no operation waits for a lock its own
\* thread holds, and the lock is free whenever no operation is in progress.
\* end_timer on a started timer, record_scraping_session,
\* get_performance_summary and export_metrics call a locking method from
\* inside `with self._lock`, and threading.Lock is not reentrant.
C33_NoSelfDeadlock ==
    /\ \A t \in MonitorThreads :
          (threads[t].stack # <<>> /\ Top(t).at = "lock") => monitor.lock # t
    /\ (\A t \in MonitorThreads : threads[t].stack = <<>>) => monitor.lock = "free"
    /\ \A t \in MonitorThreads :
          threads[t].returned = "duration" =>
              \E n \in TimerNames : n \o <<"duration">> \in monitor.current_metrics

\* The source whose fetcher task t is awaiting, if any.
AwaitedSource(t) ==
    CASE pc[t] = "await_api" -> {API}
      [] pc[t] \in {"await_scraper", "await_fallback"} -> {SCRAPER}
      [] OTHER -> {}

\* Within one call each fetcher is invoked at most once, and every
\* invocation that has ended was recorded once, as a success or a failure.
OneOutcomePerInvocation ==
    \A t \in Tasks : \A s \in DataSourceType :
        /\ calls[t].inv[s] <= 1
        /\ calls[t].succ[s] + calls[t].fail[s]
              = IF s \in AwaitedSource(t) THEN calls[t].inv[s] - 1
                ELSE calls[t].inv[s]

\* A returned result with usedFallback = true: in that call the API fetcher
\* failed and the scraper fetcher was invoked.
FallbackResultMeansApiFailed ==
    \A t \in Tasks :
        (pc[t] = "done" /\ result[t][3]) =>
            /\ calls[t].fail[API] = 1
            /\ calls[t].inv = [s \in DataSourceType |-> 1]

\* Task t's call returns in this step.
Returns(t) == pc[t] # "done" /\ pc'[t] = "done"

\* C34 (as claimed): in every call each fetcher is invoked at most once and
\* one outcome is recorded per invocation; a result with usedFallback = true
\* implies that in this call the API fetcher failed, that the API status is
\* FAILED when the result is returned, and that the scraper fetcher was
\* invoked.
C34_FallbackResultWithApiFailed ==
    /\ [](OneOutcomePerInvocation /\ FallbackResultMeansApiFailed)
    /\ [][\A t \in Tasks :
             (Returns(t) /\ result'[t][3]) => source_status'[API] = FAILED]_vars

\* C34 (amended): in every call each fetcher is invoked at most once and one
\* outcome is recorded per invocation; a result with usedFallback = true
\* implies that in this call the API fetcher failed and the scraper fetcher
\* was invoked, and that the API status was FAILED when the scraper fetcher
\* was invoked.
C34_OneOutcomePerInvocation ==
    /\ [](OneOutcomePerInvocation /\ FallbackResultMeansApiFailed)
    /\ [][\A t \in Tasks :
             /\ (used_fallback'[t] /\ ~used_fallback[t]) =>
                    /\ source_status'[API] = FAILED
                    /\ calls'[t].fail[API] = 1
                    /\ pc'[t] = "await_fallback"
             /\ (Returns(t) /\ result'[t][3]) => used_fallback[t]]_vars

\* A call fell back and got its data from the scraper: both fetchers were
\* invoked once, with a failure recorded for API and a success for SCRAPER.
C34_Witness ==
    \E t \in Tasks :
        /\ pc[t] = "done"
        /\ result[t] = <<"data", "scraper", TRUE>>
        /\ calls[t].inv = [s \in DataSourceType |-> 1]
        /\ calls[t].fail = One(API)
        /\ calls[t].succ = One(SCRAPER)
        /\ source_status[API] = FAILED

\* The fetcher of the preferred source is not among the fetchers a and s
\* given for API and SCRAPER.
PreferredFetcherMissing(a, s) ==
    \/ get_preferred_source = API /\ ~a
    \/ get_preferred_source = SCRAPER /\ ~s

\* C35: if the fetcher of the preferred source is not supplied,
\* fetch_data_with_fallback invokes no fetcher, also when the other fetcher
\* is supplied, returns (null, "none", false), and leaves every source's
\* status, failure count and last success time unchanged.
C35_MissingPreferredFetcher ==
    [][\A t \in Tasks : \A a, s \in BOOLEAN :
          (CallWith(t, a, s) /\ PreferredFetcherMissing(a, s)) =>
              /\ pc'[t] = "done"
              /\ calls'[t] = NoCalls
              /\ result'[t] = <<"null", "none", FALSE>>
              /\ UNCHANGED mgrVars]_vars

\* Two calls returned without invoking a fetcher: one preferred API and was
\* given only a scraper fetcher, the other preferred SCRAPER and was given
\* only an API fetcher.
C35_Witness ==
    \E t, u \in Tasks :
        /\ pc[t] = "done" /\ pc[u] = "done"
        /\ preferred_source[t] = API
        /\ ~api_fetcher[t] /\ scraper_fetcher[t]
        /\ preferred_source[u] = SCRAPER
        /\ api_fetcher[u] /\ ~scraper_fetcher[u]
        /\ calls[t] = NoCalls /\ calls[u] = NoCalls
        /\ result[t] = <<"null", "none", FALSE>>
        /\ result[u] = <<"null", "none", FALSE>>

\* C36: a parser attempt that returns an empty list without raising is
\* followed, while attempts remain, by another attempt of the same parser
\* after both a delay_between_parsers sleep and a retry sleep of 2 to 5
\* seconds; a parser whose retry_attempts + 1 attempts all returned empty
\* contributes an empty result to the cycle.
C36_EmptyListIsRetried ==
    \A p \in parsers :
        /\ (outcome[p] = "empty" /\ ppc[p] = "new_page") =>
              /\ slept[p].between \in delay_between_parsers[1]..delay_between_parsers[2]
              /\ slept[p].retry \in 2..5
              /\ attempt[p] \in 1..retry_attempts
        /\ (outcome[p] = "empty" /\ ppc[p] = "done") =>
              /\ attempt[p] = retry_attempts
              /\ presult[p] = "empty"
              /\ p \notin output.sources

\* One parser is about to start its second attempt after an empty list and
\* both sleeps, while another has returned after its last attempt came back
\* empty.
C36_Witness ==
    \E p, q \in parsers :
        /\ ppc[p] = "new_page"
        /\ attempt[p] = 1
        /\ outcome[p] = "empty"
        /\ slept[p].between >= delay_between_parsers[1]
        /\ slept[p].retry >= 2
        /\ ppc[q] = "done"
        /\ outcome[q] = "empty"
        /\ presult[q] = "empty"
        /\ parse_calls[q] = retry_attempts + 1

\* C37: fetch_gold_price_web runs scrape_all_sources at most max_retries + 1
\* times per call; it returns the JSON payload of the first cycle that
\* yields a record and runs no further cycle; a cycle that raises or yields
\* no record is followed by a wait and another cycle while retries remain;
\* after the last failed cycle it returns null data, and it never raises.
C37_BoundedCycles ==
    /\ [](/\ web.cycles <= web.max_retries + 1
          /\ web.at \in {"idle", "cycle", "wait", "done"}
          /\ web.data = "json" => web.at = "done"
          /\ web.at = "done" => web.data \in {"json", "null"}
          /\ web.at = "wait" => web.cycles = web.retries
          /\ web.at = "cycle" => web.cycles = web.retries + 1)
    /\ [][\A o \in CycleOutcomes :
             CycleEnds(o) =>
                 /\ YieldsRecords(o) =>
                        /\ web'.at = "done" /\ web'.data = "json"
                        /\ web'.items = o.sources
                        /\ web'.cycles = web.cycles
                 /\ (~YieldsRecords(o) /\ web.cycles <= web.max_retries) =>
                        /\ web'.at = "wait"
                        /\ web'.waited >= min_retry_wait
                 /\ (~YieldsRecords(o) /\ web.cycles = web.max_retries + 1) =>
                        web'.at = "done" /\ web'.data = "null"]_vars

\* A call with the default max_retries returned null after three cycles.
C37_Witness ==
    /\ web.at = "done"
    /\ web.max_retries = 2
    /\ web.cycles = 3
    /\ web.data = "null"

\* The symbols the items of a payload carry, whatever their prices
SymbolsOf(data) ==
    IF data.type # "dict" \/ ComparisonRaises(data) THEN {}
    ELSE {ItemsOf_get(data)[i].symbol :
             i \in {j \in 1..Len(ItemsOf_get(data)) :
                       "symbol" \in ItemsOf_get(data)[j].fields}}

\* The symbols both payloads of the call carry
SharedSymbols == SymbolsOf(ApiParsed) \cap SymbolsOf(ScraperParsed)

\* C38: when the two payloads given to compare_sources have no symbol in
\* common, the returned consistency score is 0 and no per-symbol price
\* discrepancy is listed; the score is positive only if at least one symbol
\* is common to both payloads.
C38_NoCommonSymbolScoresZero ==
    (called /\ callee = "compare_sources" /\ ~returned.raised) =>
        /\ SharedSymbols = {} =>
              /\ returned.consistency_score = Zero_0
              /\ \A i \in 1..Len(returned.differences) :
                    returned.differences[i] \in {"count", "exception"}
        /\ returned.consistency_score.num > 0 => SharedSymbols # {}

\* A payload quoting only gold was compared with one quoting only silver:
\* the score is 0 and nothing is listed.
C38_Witness ==
    /\ called
    /\ callee = "compare_sources"
    /\ ~returned.raised
    /\ SymbolsOf(ApiParsed) = {"XAU"}
    /\ SymbolsOf(ScraperParsed) = {"XAG"}
    /\ PricedSymbols(ApiParsed) = {"XAU"}
    /\ PricedSymbols(ScraperParsed) = {"XAG"}
    /\ returned.consistency_score = Zero_0
    /\ returned.differences = <<>>

====
